---- MODULE Spec2Model ----
(***************************************************************************)
(* A model of arc::core::JobManager (src/core/inc/JobManager.hpp): the     *)
(* worker pool, its per-thread job queues, the completion counters and the *)
(* calls execute, dispatch, wait_for, initialize and shutdown.             *)
(*                                                                         *)
(* Every thread (a producer, a worker, the shutdown waker) has a call      *)
(* stack of frames; a frame records the function it is in (fn), the place  *)
(* it has reached (pc) and the function's locals.  One action is one       *)
(* atomic access to shared state together with the thread-local code that  *)
(* follows it.                                                             *)
(***************************************************************************)
EXTENDS Integers, Sequences, FiniteSets, TLC

\* ------------------------------------------------------------ bounds
\* uint32_t is modelled as an unsigned word of WordBits bits.
WordBits == 3
\* API calls the producer threads make in one behaviour.
MaxBudget == 4

UIntMod == 2 ^ WordBits
UIntMax == UIntMod - 1

Contexts == {"A", "B"}
Producers == {"P1", "P2"}
Main == "P1"
WorkerNames == <<"w0", "w1", "w2", "w3">>
WorkerThreads == {WorkerNames[k] : k \in 1..Len(WorkerNames)}
Waker == "waker"
Threads == Producers \cup WorkerThreads \cup {Waker}
NoThread == "none"

VARIABLES
    n_cores,              \* internal_state.n_cores
    n_threads,            \* internal_state.n_threads
    job_queue_per_thread, \* internal_state.job_queue_per_thread: <<>> when null
    alive,                \* internal_state.alive
    wake_mutex,           \* internal_state.wake_mutex: the thread holding it
    next_queue,           \* internal_state.next_queue
    threads,              \* internal_state.threads: the std::thread objects
    is_initialized,       \* _is_initialized_
    wake_loop,            \* the local of shutdown() that its waker thread reads
    counter,              \* Context::counter of every Context
    shared_allocation_data, \* the thread_local vector of work(), per thread
    stack,                \* the call stack of every thread
    calls,                \* history: the execute/dispatch calls, in order
    pushed,               \* history: push_back count of every job
    popped,               \* history: pop_front count of every job
    ran,                  \* history: task invocations per (call, job_index)
    done,                 \* history: counter decrements of every job
    dropped,              \* history: jobs released with the queues, per Context
    shutdowns,            \* history: number of shutdown() calls begun
    budget,               \* API calls the producers may still make
    lck,                  \* SpinLock::lck of the one SpinLock: TRUE when set
    locker,               \* JobQueue::locker: the (queue, thread) pairs holding one
    logger,               \* the Logger object: its five members
    logfile,              \* the lines of the Logger's target file
    loghist,              \* history: the Logger's accepted logs and hook calls
    handles,              \* the SceneHandle objects: m_scene and m_ready
    scenes                \* history: per handle, the init() and destroy() calls on its scene
                          \* and its last completed async_init / async_destroy

vars == <<n_cores, n_threads, job_queue_per_thread, alive, wake_mutex,
          next_queue, threads, is_initialized, wake_loop, counter,
          shared_allocation_data, stack, calls, pushed, popped, ran,
          done, dropped, shutdowns, budget, lck, locker,
          logger, logfile, loghist, handles, scenes>>

\* The objects beside the scheduler's state: queue locks, Logger, SceneHandles.
logging == <<logger, logfile, loghist>>
staging == <<handles, scenes>>
aside == <<locker, logging, staging>>

internal == <<n_cores, n_threads, job_queue_per_thread, alive, wake_mutex,
              next_queue, threads, is_initialized, wake_loop>>
history == <<calls, pushed, popped, ran, done, dropped, shutdowns>>

\* ------------------------------------------------------------ helpers
Min(a, b) == IF a < b THEN a ELSE b
Max(a, b) == IF a > b THEN a ELSE b

BagAdd(b, e) == IF e \in DOMAIN b THEN [b EXCEPT ![e] = @ + 1] ELSE b @@ (e :> 1)
BagCount(b, e) == IF e \in DOMAIN b THEN b[e] ELSE 0
EmptyBag == [e \in {} |-> 0]

Top(t) == stack[t][Len(stack[t])]
At(t, f, p) == stack[t] # <<>> /\ Top(t).fn = f /\ Top(t).pc = p
SetTop(s, t, f) == [s EXCEPT ![t][Len(s[t])] = f]
Goto(s, t, p) == [s EXCEPT ![t][Len(s[t])].pc = p]
Push(s, t, f) == [s EXCEPT ![t] = Append(@, f)]
Pop(s, t) == [s EXCEPT ![t] = SubSeq(@, 1, Len(@) - 1)]

\* ------------------------------------------------------------ data
\* std::atomic<uint32_t>::fetch_add / fetch_sub: the value stored.
fetch_add(v, d) == (v + d) % UIntMod
fetch_sub(v, d) == (v - d) % UIntMod

PlainTask == [kind |-> "plain", ctx |-> "A"]
SpawnTask(c) == [kind |-> "spawn", ctx |-> c]   \* calls execute(c, plain)
WaitTask(c) == [kind |-> "wait", ctx |-> c]     \* calls wait_for(c)

\* struct Job, with the number of the call that built it (history).
Job(task, ctx, gid, offset, end, shm, call) ==
    [task |-> task, context |-> ctx, group_ID |-> gid,
     group_job_offset |-> offset, group_job_end |-> end,
     sharedmemory_size |-> shm, call |-> call]
NoJob == Job(PlainTask, "A", 0, 0, 0, 0, 0)

\* JobQueue::push_back and JobQueue::pop_front on the deque.
push_back(queue, item) == Append(queue, item)
\* A mutant: pop_front hands out the front item and leaves it in the deque.
pop_front_keeps(queue) == queue
pop_front(queue) == Tail(queue)
\* A mutant: pop_front hands out the newest item.
back(queue) == queue[Len(queue)]
\* item = std::move(queue.front())
front(queue) == Head(queue)

\* The queue a cursor value selects: cursor % n_threads.
QueueIndex(cursor) == cursor % n_threads

\* Mutants: is_busy answers false, or true, whatever the counter holds.
never_busy(ctx) == FALSE
always_busy(ctx) == TRUE
\* is_busy(ctx): ctx.counter.load() > 0
is_busy(ctx) == counter[ctx] > 0

\* ------------------------------------------------------------ frames
WorkerFrame(id) == [fn |-> "worker", pc |-> "alive", threadID |-> id]
WorkFrame(s) ==
    [fn |-> "work", pc |-> "pop", startingQueue |-> s, i |-> 0,
     job |-> NoJob, j |-> 0, sharedmemory |-> 0]
TaskFrame(task) == [fn |-> "task", pc |-> "ret", task |-> task]
ExecuteFrame(ctx, task) ==
    [fn |-> "execute", pc |-> "inc", ctx |-> ctx, task |-> task,
     job |-> NoJob, q |-> 0]
DispatchFrame(ctx, jobCount, groupSize, task, shm) ==
    [fn |-> "dispatch", pc |-> "begin", ctx |-> ctx, jobCount |-> jobCount,
     groupSize |-> groupSize, task |-> task, sharedmemory_size |-> shm,
     groupCount |-> 0, groupID |-> 0, job |-> NoJob, q |-> 0, call |-> 0]
WaitForFrame(ctx) == [fn |-> "wait_for", pc |-> "busy", ctx |-> ctx]
InitializeFrame(m, h) ==
    [fn |-> "initialize", pc |-> "check", maxThreadCount |-> m,
     hardware_concurrency |-> h, threadID |-> 0]
ShutdownFrame == [fn |-> "shutdown", pc |-> "begin", k |-> 1]
WakerFrame == [fn |-> "waker", pc |-> "loop"]

\* ------------------------------------------------------------ wake_condition
Parked(s, u) ==
    s[u] # <<>> /\ s[u][Len(s[u])].fn = "worker" /\ s[u][Len(s[u])].pc = "parked"
\* A mutant: notify_all wakes nobody.
notify_nobody(s) == s
\* condition_variable::notify_all: every thread blocked in wait() is woken.
notify_all(s) ==
    [u \in DOMAIN s |-> IF Parked(s, u) THEN Goto(s, u, "woken")[u] ELSE s[u]]
\* condition_variable::notify_one: one of the blocked threads, if any.
notify_one(s) ==
    IF \E u \in DOMAIN s : Parked(s, u)
    THEN {Goto(s, u, "woken") : u \in {v \in DOMAIN s : Parked(s, v)}}
    ELSE {s}

\* ------------------------------------------------------------ Init
\* enum LogID.
LOG_EVERYTHING == 0
LOG_DEBUG == 1
LOG_INFO == 2
LOG_WARNING == 3
LOG_ERROR == 4
LOG_FATAL == 99
LogIDs == {LOG_EVERYTHING, LOG_DEBUG, LOG_INFO, LOG_WARNING, LOG_ERROR, LOG_FATAL}

\* A Logger as its member initializers leave it.
NewLogger == [m_log_target |-> "", m_buffer |-> <<>>, m_log_hooks |-> <<>>,
              m_max_buffer_size |-> 0, m_max_level |-> LOG_EVERYTHING]

\* The SceneHandle objects of the program, and the null m_scene.
HandleNames == {"game", "menu"}
NoScene == "nullptr"
\* A SceneHandle as its member initializers leave it.
NewHandle == [m_scene |-> NoScene, m_ready |-> FALSE]

InitWith(b) ==
    /\ n_cores = 0
    /\ n_threads = 0
    /\ job_queue_per_thread = <<>>
    /\ alive = TRUE
    /\ wake_mutex = NoThread
    /\ next_queue = 0
    /\ threads = <<>>
    /\ is_initialized = FALSE
    /\ wake_loop = FALSE
    /\ counter = [c \in Contexts |-> 0]
    /\ shared_allocation_data = [t \in Threads |-> [capacity |-> 0, data |-> 0]]
    /\ stack = [t \in Threads |-> <<>>]
    /\ calls = <<>>
    /\ pushed = EmptyBag
    /\ popped = EmptyBag
    /\ ran = EmptyBag
    /\ done = EmptyBag
    /\ dropped = [c \in Contexts |-> 0]
    /\ shutdowns = 0
    /\ budget = b
    /\ lck = FALSE
    /\ locker = {}
    /\ logger = NewLogger
    /\ logfile = <<>>
    /\ loghist = [made |-> FALSE, logged |-> <<>>, hooked |-> <<>>]
    /\ handles = [h \in HandleNames |-> NewHandle]
    /\ scenes = [h \in HandleNames |-> [inits |-> 0, destroys |-> 0, last |-> "none"]]

\* The state after static construction of internal_state.
Init == InitWith(MaxBudget)

\* ------------------------------------------------------------ worker loop
\* The thread body of initialize(): while (alive.load()) { work(threadID); ...
WorkerLoop(t) ==
    /\ At(t, "worker", "alive")
    /\ IF alive
       THEN /\ stack' = Push(Goto(stack, t, "lock"), t, WorkFrame(Top(t).threadID))
            /\ UNCHANGED shared_allocation_data
       ELSE /\ stack' = [stack EXCEPT ![t] = <<>>]
            /\ shared_allocation_data' =
                   [shared_allocation_data EXCEPT ![t] = [capacity |-> 0, data |-> 0]]
    /\ UNCHANGED <<aside, lck, internal, counter, history, budget>>

\* std::unique_lock<std::mutex> lock(internal_state.wake_mutex);
WorkerLock(t) ==
    /\ At(t, "worker", "lock")
    /\ wake_mutex = NoThread
    /\ wake_mutex' = t
    /\ stack' = Goto(stack, t, "wait")
    /\ UNCHANGED <<aside, lck, n_cores, n_threads, job_queue_per_thread, alive, next_queue,
                   threads, is_initialized, wake_loop, counter,
                   shared_allocation_data, history, budget>>

\* wake_condition.wait(lock): releases the mutex and blocks, atomically.
WorkerWait(t) ==
    /\ At(t, "worker", "wait")
    /\ wake_mutex' = NoThread
    /\ stack' = Goto(stack, t, "parked")
    /\ UNCHANGED <<aside, lck, n_cores, n_threads, job_queue_per_thread, alive, next_queue,
                   threads, is_initialized, wake_loop, counter,
                   shared_allocation_data, history, budget>>

\* wait() may return without a notification (a spurious wake-up).
SpuriousWake(t) ==
    /\ At(t, "worker", "parked")
    /\ stack' = Goto(stack, t, "woken")
    /\ UNCHANGED <<aside, lck, internal, counter, shared_allocation_data, history, budget>>

\* wait() returns only once it holds the mutex again.
WorkerReacquire(t) ==
    /\ At(t, "worker", "woken")
    /\ wake_mutex = NoThread
    /\ wake_mutex' = t
    /\ stack' = Goto(stack, t, "unlock")
    /\ UNCHANGED <<aside, lck, n_cores, n_threads, job_queue_per_thread, alive, next_queue,
                   threads, is_initialized, wake_loop, counter,
                   shared_allocation_data, history, budget>>

\* A mutant: the lock outlives the loop body, the worker keeps the mutex.
KeptBy(t) == t
\* The owner of wake_mutex once thread t's unique_lock is destroyed.
ReleasedBy(t) == NoThread

\* The unique_lock goes out of scope at the end of the loop body.
WorkerUnlock(t) ==
    /\ At(t, "worker", "unlock")
    /\ wake_mutex' = ReleasedBy(t)
    /\ stack' = Goto(stack, t, "alive")
    /\ UNCHANGED <<aside, lck, n_cores, n_threads, job_queue_per_thread, alive, next_queue,
                   threads, is_initialized, wake_loop, counter,
                   shared_allocation_data, history, budget>>

\* ------------------------------------------------------------ JobQueue::locker
\* std::scoped_lock lock(locker) of push_back and pop_front on queue q can be
\* passed by thread t: the lock is free, or t has acquired it already.
Lockable(q, t) == \A u \in Threads \ {t} : <<q, u>> \notin locker
\* A mutant: the lock is still held when push_back / pop_front has returned.
HeldAfterScope(held, q, t) == held
\* The locks held once the scoped_lock of thread t on queue q is destroyed.
AfterScope(held, q, t) == held \ {<<q, t>>}

\* ------------------------------------------------------------ work
\* shared_allocation_data.reserve(n): a larger capacity is a new buffer.
reserve(v, n) ==
    IF n > v.capacity THEN [capacity |-> n, data |-> v.data + 1] ELSE v

\* A mutant: the iteration loop ends after the group's first iteration.
FirstOnly(j, job) == IF j = job.group_job_offset THEN "iter" ELSE "dec"
\* The loop test of the iteration loop: j < job.group_job_end.
LoopPc(j, job) == IF j < job.group_job_end THEN "iter" ELSE "dec"

\* A mutant: the iteration loop does not advance j.
SameIteration(f) == [f EXCEPT !.pc = LoopPc(f.j, f.job)]
\* The work frame once one iteration of the task has returned: ++j.
AfterIteration(f) ==
    [f EXCEPT !.j = fetch_add(f.j, 1), !.pc = LoopPc(fetch_add(f.j, 1), f.job)]

\* A mutant: the pass ends after its first queue.
FirstQueueOnly(i, n) == FALSE
\* A mutant: the pass goes one queue too far.
OneQueueMore(i, n) == i < n
\* The test of work()'s loop over the queues, after ++i: i < n_threads.
MoreQueues(i, n) == i + 1 < n

\* One pop_front of work(): either a job is taken and its arguments are set up,
\* or the queue is empty and the pass goes to the next queue (or ends).
WorkPop(t) ==
    /\ At(t, "work", "pop")
    /\ Lockable(QueueIndex(Top(t).startingQueue), t)
    /\ locker' = AfterScope(locker, QueueIndex(Top(t).startingQueue), t)
    /\ LET f == Top(t)
           q == QueueIndex(f.startingQueue)
           queue == job_queue_per_thread[q + 1]
       IN IF queue # <<>>
          THEN LET job == front(queue)
                   buf == IF job.sharedmemory_size > 0
                          THEN reserve(shared_allocation_data[t], job.sharedmemory_size)
                          ELSE shared_allocation_data[t]
               IN /\ job_queue_per_thread' =
                         [job_queue_per_thread EXCEPT ![q + 1] = pop_front(queue)]
                  /\ popped' = BagAdd(popped, job)
                  /\ shared_allocation_data' =
                         [shared_allocation_data EXCEPT ![t] = buf]
                  /\ stack' = SetTop(stack, t,
                         [f EXCEPT !.job = job,
                                   !.j = job.group_job_offset,
                                   !.sharedmemory =
                                       IF job.sharedmemory_size > 0 THEN buf.data ELSE 0,
                                   !.pc = LoopPc(job.group_job_offset, job)])
          ELSE /\ stack' =
                      IF MoreQueues(f.i, n_threads)
                      THEN SetTop(stack, t,
                               [f EXCEPT !.i = f.i + 1,
                                         !.startingQueue = fetch_add(f.startingQueue, 1)])
                      ELSE Pop(stack, t)
               /\ UNCHANGED <<job_queue_per_thread, popped, shared_allocation_data>>
    /\ UNCHANGED <<logging, staging, lck, n_cores, n_threads, alive, wake_mutex,
                   next_queue, threads,
                   is_initialized, wake_loop, counter, calls, pushed, ran,
                   done, dropped, shutdowns, budget>>

\* A mutant: the last-iteration flag is never set.
NeverLast(j, job) == FALSE
\* args.is_first_job_in_group = (j == job.group_job_offset)
IsFirstJobInGroup(j, job) == j = job.group_job_offset
\* args.is_last_job_in_group = (j == job.group_job_end - 1)
IsLastJobInGroup(j, job) == j = (job.group_job_end - 1) % UIntMod

\* The JobArgs work() passes to the task for the iteration its frame f is at;
\* sharedmemory 0 is the null pointer.
Args(f) ==
    [job_index |-> f.j,
     group_ID |-> f.job.group_ID,
     group_index |-> (f.j - f.job.group_job_offset) % UIntMod,
     is_first_job_in_group |-> IsFirstJobInGroup(f.j, f.job),
     is_last_job_in_group |-> IsLastJobInGroup(f.j, f.job),
     sharedmemory |-> f.sharedmemory]

\* job.task(args) for iteration j: a plain task runs and returns; the other
\* tasks call back into the scheduler from their body.
WorkInvoke(t) ==
    /\ At(t, "work", "iter")
    /\ LET f == Top(t)
           task == f.job.task
       IN /\ ran' = BagAdd(ran, <<f.job.call, Args(f).job_index>>)
          /\ stack' =
                 CASE task.kind = "plain" -> SetTop(stack, t, AfterIteration(f))
                   [] task.kind = "spawn" ->
                        Push(Push(stack, t, TaskFrame(task)), t,
                             ExecuteFrame(task.ctx, PlainTask))
                   [] task.kind = "wait" ->
                        Push(Push(stack, t, TaskFrame(task)), t,
                             WaitForFrame(task.ctx))
    /\ UNCHANGED <<aside, lck, internal, counter, shared_allocation_data, calls, pushed,
                   popped, done, dropped, shutdowns, budget>>

\* The task body returns to the iteration loop of work().
TaskReturn(t) ==
    /\ At(t, "task", "ret")
    /\ LET s == Pop(stack, t)
       IN stack' = SetTop(s, t, AfterIteration(s[t][Len(s[t])]))
    /\ UNCHANGED <<aside, lck, internal, counter, shared_allocation_data, history, budget>>

\* The counter after a job's iterations are over: counter.fetch_sub(1).
CounterAfterJob(v) == fetch_sub(v, 1)

\* job.context->counter.fetch_sub(1).  The locals job, j and args are dead until
\* the next pop_front overwrites them, so the frame forgets them here.
WorkDone(t) ==
    /\ At(t, "work", "dec")
    /\ counter' = [counter EXCEPT ![Top(t).job.context] = CounterAfterJob(@)]
    /\ done' = BagAdd(done, Top(t).job)
    /\ stack' = SetTop(stack, t,
           [Top(t) EXCEPT !.job = NoJob, !.j = 0, !.sharedmemory = 0, !.pc = "pop"])
    /\ UNCHANGED <<aside, lck, internal, shared_allocation_data, calls, pushed, popped, ran,
                   dropped, shutdowns, budget>>

\* ------------------------------------------------------------ execute
\* A mutant: execute forgets to announce its job.
CounterNotAnnounced(v) == v

\* The counter after execute's announcement: counter.fetch_add(1).
CounterAfterExecute(v) == fetch_add(v, 1)

\* ctx.counter.fetch_add(1), and the Job is filled in.
ExecuteInc(t) ==
    /\ At(t, "execute", "inc")
    /\ LET f == Top(t)
       IN /\ counter' = [counter EXCEPT ![f.ctx] = CounterAfterExecute(@)]
          /\ calls' = Append(calls,
                 [fn |-> "execute", by |-> t, ctx |-> f.ctx, jobCount |-> 1,
                  groupSize |-> 1, groupCount |-> 1])
          /\ stack' = SetTop(stack, t,
                 [f EXCEPT !.job = Job(f.task, f.ctx, 0, 0, 1, 0, Len(calls) + 1),
                           !.pc = "cursor"])
    /\ UNCHANGED <<aside, lck, internal, shared_allocation_data, pushed, popped, ran,
                   done, dropped, shutdowns, budget>>

\* internal_state.next_queue.fetch_add(1) % internal_state.n_threads
ExecuteCursor(t) ==
    /\ At(t, "execute", "cursor")
    /\ next_queue' = fetch_add(next_queue, 1)
    /\ stack' = SetTop(stack, t,
           [Top(t) EXCEPT !.q = QueueIndex(next_queue), !.pc = "push"])
    /\ UNCHANGED <<aside, lck, n_cores, n_threads, job_queue_per_thread, alive, wake_mutex,
                   threads, is_initialized, wake_loop, counter,
                   shared_allocation_data, history, budget>>

\* job_queue_per_thread[q].push_back(job)
ExecutePush(t) ==
    /\ At(t, "execute", "push")
    /\ Lockable(Top(t).q, t)
    /\ locker' = AfterScope(locker, Top(t).q, t)
    /\ LET f == Top(t)
       IN /\ job_queue_per_thread' =
                 [job_queue_per_thread EXCEPT ![f.q + 1] = push_back(@, f.job)]
          /\ pushed' = BagAdd(pushed, f.job)
    /\ stack' = Goto(stack, t, "notify")
    /\ UNCHANGED <<logging, staging, lck, n_cores, n_threads, alive, wake_mutex,
                   next_queue, threads,
                   is_initialized, wake_loop, counter, shared_allocation_data,
                   calls, popped, ran, done, dropped, shutdowns, budget>>

\* internal_state.wake_condition.notify_one(), and execute returns.
ExecuteNotify(t) ==
    /\ At(t, "execute", "notify")
    /\ \E s \in notify_one(Pop(stack, t)) : stack' = s
    /\ UNCHANGED <<aside, lck, internal, counter, shared_allocation_data, history, budget>>

\* ------------------------------------------------------------ wait_for
\* if (is_busy(ctx))
WaitBusy(t) ==
    /\ At(t, "wait_for", "busy")
    /\ stack' = IF is_busy(Top(t).ctx) THEN Goto(stack, t, "notify") ELSE Pop(stack, t)
    /\ UNCHANGED <<aside, lck, internal, counter, shared_allocation_data, history, budget>>

\* internal_state.wake_condition.notify_all()
WaitNotify(t) ==
    /\ At(t, "wait_for", "notify")
    /\ stack' = notify_all(Goto(stack, t, "cursor"))
    /\ UNCHANGED <<aside, lck, internal, counter, shared_allocation_data, history, budget>>

\* work(internal_state.next_queue.fetch_add(1) % internal_state.n_threads)
WaitWork(t) ==
    /\ At(t, "wait_for", "cursor")
    /\ next_queue' = fetch_add(next_queue, 1)
    /\ stack' = Push(Goto(stack, t, "spin"), t, WorkFrame(QueueIndex(next_queue)))
    /\ UNCHANGED <<aside, lck, n_cores, n_threads, job_queue_per_thread, alive, wake_mutex,
                   threads, is_initialized, wake_loop, counter,
                   shared_allocation_data, history, budget>>

\* while (is_busy(ctx)) { std::this_thread::yield(); }
WaitSpin(t) ==
    /\ At(t, "wait_for", "spin")
    /\ stack' = IF is_busy(Top(t).ctx) THEN stack ELSE Pop(stack, t)
    /\ UNCHANGED <<aside, lck, internal, counter, shared_allocation_data, history, budget>>

\* ------------------------------------------------------------ dispatch
\* dispatch_group_count: (jobCount + groupSize - 1) / groupSize in uint32_t.
dispatch_group_count(jobCount, groupSize) ==
    ((jobCount + groupSize - 1) % UIntMod) \div groupSize

\* job.group_job_offset = groupID * groupSize
GroupJobOffset(groupID, groupSize) == (groupID * groupSize) % UIntMod

\* job.group_job_end = std::min(job.group_job_offset + groupSize, jobCount)
GroupJobEnd(offset, groupSize, jobCount) ==
    Min((offset + groupSize) % UIntMod, jobCount)

\* A mutant: dispatch returns early for a zero group size only.
ZeroGroupSizeOnly(jobCount, groupSize) == groupSize = 0
\* if (jobCount == 0 || groupSize == 0) return;
NothingToDispatch(jobCount, groupSize) == jobCount = 0 \/ groupSize = 0

\* The early return, dispatch_group_count and ctx.counter.fetch_add(groupCount).
DispatchBegin(t) ==
    /\ At(t, "dispatch", "begin")
    /\ LET f == Top(t)
           groupCount == dispatch_group_count(f.jobCount, f.groupSize)
       IN IF NothingToDispatch(f.jobCount, f.groupSize)
          THEN /\ stack' = Pop(stack, t)
               /\ UNCHANGED <<counter, calls>>
          ELSE /\ counter' = [counter EXCEPT ![f.ctx] = fetch_add(@, groupCount)]
               /\ calls' = Append(calls,
                      [fn |-> "dispatch", by |-> t, ctx |-> f.ctx, jobCount |-> f.jobCount,
                       groupSize |-> f.groupSize, groupCount |-> groupCount])
               /\ stack' = SetTop(stack, t,
                      [f EXCEPT !.groupCount = groupCount,
                                !.groupID = 0,
                                !.call = Len(calls) + 1,
                                !.pc = IF 0 < groupCount THEN "loop" ELSE "notify"])
    /\ UNCHANGED <<aside, lck, internal, shared_allocation_data, pushed, popped, ran,
                   done, dropped, shutdowns, budget>>

\* One group's Job is filled in and the cursor is advanced for it.
DispatchLoop(t) ==
    /\ At(t, "dispatch", "loop")
    /\ LET f == Top(t)
           offset == GroupJobOffset(f.groupID, f.groupSize)
       IN stack' = SetTop(stack, t,
              [f EXCEPT !.job = Job(f.task, f.ctx, f.groupID, offset,
                                    GroupJobEnd(offset, f.groupSize, f.jobCount),
                                    f.sharedmemory_size % UIntMod, f.call),
                        !.q = QueueIndex(next_queue),
                        !.pc = "push"])
    /\ next_queue' = fetch_add(next_queue, 1)
    /\ UNCHANGED <<aside, lck, n_cores, n_threads, job_queue_per_thread, alive, wake_mutex,
                   threads, is_initialized, wake_loop, counter,
                   shared_allocation_data, history, budget>>

\* push_back of the group's Job, ++groupID and the loop test.
DispatchPush(t) ==
    /\ At(t, "dispatch", "push")
    /\ Lockable(Top(t).q, t)
    /\ locker' = AfterScope(locker, Top(t).q, t)
    /\ LET f == Top(t)
       IN /\ job_queue_per_thread' =
                 [job_queue_per_thread EXCEPT ![f.q + 1] = push_back(@, f.job)]
          /\ pushed' = BagAdd(pushed, f.job)
          /\ stack' = SetTop(stack, t,
                 [f EXCEPT !.groupID = f.groupID + 1,
                           !.pc = IF f.groupID + 1 < f.groupCount
                                  THEN "loop" ELSE "notify"])
    /\ UNCHANGED <<logging, staging, lck, n_cores, n_threads, alive, wake_mutex,
                   next_queue, threads,
                   is_initialized, wake_loop, counter, shared_allocation_data,
                   calls, popped, ran, done, dropped, shutdowns, budget>>

\* internal_state.wake_condition.notify_all(), and dispatch returns.
DispatchNotify(t) ==
    /\ At(t, "dispatch", "notify")
    /\ stack' = notify_all(Pop(stack, t))
    /\ UNCHANGED <<aside, lck, internal, counter, shared_allocation_data, history, budget>>

\* ------------------------------------------------------------ initialize
\* std::min(std::max(1u, maxThreadCount), std::max(1u, n_cores - 1)) in uint32_t.
WorkerCount(maxThreadCount, cores) ==
    Min(Max(1, maxThreadCount), Max(1, (cores - 1) % UIntMod))

\* A mutant: initialize never takes the pool for initialized.
NeverInitialized == FALSE
\* if (internal_state.n_threads > 0) return;
AlreadyInitialized == n_threads > 0

\* The guard of initialize(), the worker count and the new queues.
InitializeCheck(t) ==
    /\ At(t, "initialize", "check")
    /\ LET f == Top(t)
           n == WorkerCount(f.maxThreadCount, f.hardware_concurrency)
       IN IF AlreadyInitialized
          THEN /\ stack' = Pop(stack, t)
               /\ UNCHANGED <<n_cores, n_threads, job_queue_per_thread>>
          ELSE /\ n_cores' = f.hardware_concurrency
               /\ n_threads' = n
               /\ job_queue_per_thread' = [k \in 1..n |-> <<>>]
               /\ stack' = SetTop(stack, t, [f EXCEPT !.threadID = 0, !.pc = "spawn"])
    /\ UNCHANGED <<aside, lck, alive, wake_mutex, next_queue, threads, is_initialized,
                   wake_loop, counter, shared_allocation_data, history, budget>>

\* threads.emplace_back(worker loop) for each threadID, then _is_initialized_.
InitializeSpawn(t) ==
    /\ At(t, "initialize", "spawn")
    /\ LET f == Top(t)
       IN IF f.threadID < n_threads
          THEN /\ threads' = Append(threads, [id |-> f.threadID, joined |-> FALSE])
               /\ stack' = [SetTop(stack, t, [f EXCEPT !.threadID = f.threadID + 1])
                               EXCEPT ![WorkerNames[f.threadID + 1]] =
                                   <<WorkerFrame(f.threadID)>>]
               /\ UNCHANGED is_initialized
          ELSE /\ is_initialized' = TRUE
               /\ stack' = Pop(stack, t)
               /\ UNCHANGED threads
    /\ UNCHANGED <<aside, lck, n_cores, n_threads, job_queue_per_thread, alive, wake_mutex,
                   next_queue, wake_loop, counter, shared_allocation_data,
                   history, budget>>

\* ------------------------------------------------------------ shutdown
\* alive.store(false); bool wake_loop = true; std::thread waker(...)
ShutdownBegin(t) ==
    /\ At(t, "shutdown", "begin")
    /\ alive' = FALSE
    /\ wake_loop' = TRUE
    /\ stack' = [Goto(stack, t, "join") EXCEPT ![Waker] = <<WakerFrame>>]
    /\ UNCHANGED <<aside, lck, n_cores, n_threads, job_queue_per_thread, wake_mutex,
                   next_queue, threads, is_initialized, counter,
                   shared_allocation_data, history, budget>>

\* A mutant: join returns while the thread is still running.
JoinsAtOnce(id) == TRUE
\* std::thread::join returns once the thread with this threadID has ended.
Joinable(id) == stack[WorkerNames[id + 1]] = <<>>

\* thread.join() for the next worker.
ShutdownJoin(t) ==
    /\ At(t, "shutdown", "join")
    /\ LET f == Top(t)
       IN /\ f.k <= Len(threads)
          /\ Joinable(threads[f.k].id)
          /\ threads' = [threads EXCEPT ![f.k].joined = TRUE]
          /\ stack' = SetTop(stack, t, [f EXCEPT !.k = f.k + 1])
    /\ UNCHANGED <<aside, lck, n_cores, n_threads, job_queue_per_thread, alive, wake_mutex,
                   next_queue, is_initialized, wake_loop, counter,
                   shared_allocation_data, history, budget>>

\* A mutant: the join loop as a do-while, which needs one thread to have been joined.
SomeJoined(k, pool) == k > Len(pool) /\ k > 1
\* The range-for over threads has ended: every element was visited.
LastJoined(k, pool) == k > Len(pool)

\* wake_loop = false, after the last join.
ShutdownStop(t) ==
    /\ At(t, "shutdown", "join")
    /\ LastJoined(Top(t).k, threads)
    /\ wake_loop' = FALSE
    /\ stack' = Goto(stack, t, "join_waker")
    /\ UNCHANGED <<aside, lck, n_cores, n_threads, job_queue_per_thread, alive, wake_mutex,
                   next_queue, threads, is_initialized, counter,
                   shared_allocation_data, history, budget>>

\* waker.join()
ShutdownJoinWaker(t) ==
    /\ At(t, "shutdown", "join_waker")
    /\ stack[Waker] = <<>>
    /\ stack' = Goto(stack, t, "reset")
    /\ UNCHANGED <<aside, lck, internal, counter, shared_allocation_data, history, budget>>

\* The jobs of Context c that are sitting in the queues.
RECURSIVE CountIn(_, _)
CountIn(queue, c) ==
    IF queue = <<>> THEN 0
    ELSE (IF Head(queue).context = c THEN 1 ELSE 0) + CountIn(Tail(queue), c)
RECURSIVE SumQueues(_, _)
SumQueues(qs, c) ==
    IF qs = <<>> THEN 0 ELSE CountIn(Head(qs), c) + SumQueues(Tail(qs), c)
Queued(c) == SumQueues(job_queue_per_thread, c)

\* job_queue_per_thread.reset(); threads.clear(); n_cores = 0; n_threads = 0;
ShutdownReset(t) ==
    /\ At(t, "shutdown", "reset")
    /\ dropped' = [c \in Contexts |-> dropped[c] + Queued(c)]
    /\ job_queue_per_thread' = <<>>
    /\ threads' = <<>>
    /\ n_cores' = 0
    /\ n_threads' = 0
    /\ stack' = Pop(stack, t)
    /\ UNCHANGED <<aside, lck, alive, wake_mutex, next_queue, is_initialized, wake_loop,
                   counter, shared_allocation_data, calls, pushed, popped, ran,
                   done, shutdowns, budget>>

\* The waker's loop body: wake_condition.notify_all().  wake_loop is a plain
\* bool written by shutdown() without synchronisation, so the waker may still
\* read true after it was set to false.
WakerNotify ==
    /\ At(Waker, "waker", "loop")
    /\ stack' = notify_all(stack)
    /\ UNCHANGED <<aside, lck, internal, counter, shared_allocation_data, history, budget>>

\* The waker reads wake_loop == false and its thread ends.
WakerExit ==
    /\ At(Waker, "waker", "loop")
    /\ ~wake_loop
    /\ stack' = [stack EXCEPT ![Waker] = <<>>]
    /\ UNCHANGED <<aside, lck, internal, counter, shared_allocation_data, history, budget>>

\* ------------------------------------------------------------ callers
\* The calls the producer threads make.  initialize and shutdown are made by the
\* main thread only, shutdown while no other producer is inside the scheduler;
\* execute, dispatch and wait_for are made on an initialized scheduler only
\* (anything else is undefined behaviour: a division by n_threads == 0).
LifecycleCall ==
    stack[Main] # <<>> /\ stack[Main][1].fn \in {"initialize", "shutdown"}
Usable == n_threads > 0 /\ ~LifecycleCall
Idle(p) == stack[p] = <<>>

\* A call costs one unit of the budget for every job it adds to the queues (a
\* spawning task adds one more from its body), and one if it adds none.
Cost(task) == IF task.kind = "spawn" THEN 2 ELSE 1
DispatchCost(d) ==
    IF d[1] = 0 \/ d[2] = 0 THEN 1 ELSE Max(1, dispatch_group_count(d[1], d[2]))

\* Each call action draws its arguments from the sets it is given.
CallExecute(p, ctxs, tasks) ==
    /\ Idle(p) /\ Usable
    /\ \E c \in ctxs, task \in tasks :
          /\ budget >= Cost(task)
          /\ budget' = budget - Cost(task)
          /\ stack' = Push(stack, p, ExecuteFrame(c, task))
    /\ UNCHANGED <<aside, lck, internal, counter, shared_allocation_data, history>>

CallDispatch(p, ctxs, sizes) ==
    /\ Idle(p) /\ Usable
    /\ \E c \in ctxs, d \in sizes :
          /\ budget >= DispatchCost(d)
          /\ budget' = budget - DispatchCost(d)
          /\ stack' = Push(stack, p, DispatchFrame(c, d[1], d[2], PlainTask, 0))
    /\ UNCHANGED <<aside, lck, internal, counter, shared_allocation_data, history>>

\* dispatch with a task and a shared scratch size of the caller's choice.
CallDispatchShared(p, c, d, task, scratch) ==
    /\ Idle(p) /\ Usable
    /\ budget >= DispatchCost(d)
    /\ budget' = budget - DispatchCost(d)
    /\ stack' = Push(stack, p, DispatchFrame(c, d[1], d[2], task, scratch))
    /\ UNCHANGED <<aside, lck, internal, counter, shared_allocation_data, history>>

CallWaitFor(p, ctxs) ==
    /\ Idle(p) /\ Usable
    /\ budget >= 1
    /\ \E c \in ctxs : stack' = Push(stack, p, WaitForFrame(c))
    /\ budget' = budget - 1
    /\ UNCHANGED <<aside, lck, internal, counter, shared_allocation_data, history>>

CallInitialize(maxThreadCounts, hardwareCounts) ==
    /\ Idle(Main)
    /\ budget >= 1
    /\ \E m \in maxThreadCounts, h \in hardwareCounts :
          stack' = Push(stack, Main, InitializeFrame(m, h))
    /\ budget' = budget - 1
    /\ UNCHANGED <<aside, lck, internal, counter, shared_allocation_data, history>>

CallShutdown ==
    /\ \A p \in Producers : Idle(p)
    /\ budget >= 1
    /\ stack' = Push(stack, Main, ShutdownFrame)
    /\ shutdowns' = shutdowns + 1
    /\ budget' = budget - 1
    /\ UNCHANGED <<aside, lck, internal, counter, shared_allocation_data, calls, pushed,
                   popped, ran, done, dropped>>

\* ------------------------------------------------------------ specification
WorkerStep(t) ==
    \/ WorkerLoop(t) \/ WorkerLock(t) \/ WorkerWait(t)
    \/ WorkerReacquire(t) \/ WorkerUnlock(t)
WorkStep(t) ==
    \/ WorkPop(t) \/ WorkInvoke(t) \/ WorkDone(t)
ExecuteStep(t) ==
    \/ ExecuteInc(t) \/ ExecuteCursor(t) \/ ExecutePush(t) \/ ExecuteNotify(t)
DispatchStep(t) ==
    \/ DispatchBegin(t) \/ DispatchLoop(t) \/ DispatchPush(t) \/ DispatchNotify(t)
WaitForStep(t) ==
    \/ WaitBusy(t) \/ WaitNotify(t) \/ WaitWork(t) \/ WaitSpin(t)
InitializeStep(t) ==
    \/ InitializeCheck(t) \/ InitializeSpawn(t)
ShutdownStep(t) ==
    \/ ShutdownBegin(t) \/ ShutdownJoin(t) \/ ShutdownStop(t)
    \/ ShutdownJoinWaker(t) \/ ShutdownReset(t)

\* The steps of the pool's own threads, in every specification.
PoolStep ==
    \/ \E t \in Threads : WorkerStep(t)
    \/ \E t \in Threads : WorkStep(t)
    \/ \E t \in WorkerThreads : SpuriousWake(t)
    \/ \E t \in Threads : InitializeStep(t)

\* Spec: two producers share one counter: the main thread makes every call
\* (execute with plain and spawning tasks, a dispatch of two groups, wait_for,
\* initialize, shutdown), a second producer calls execute and wait_for.
MaxThreadCounts == {1, 2}
HardwareCounts == {3}
Next ==
    \/ PoolStep
    \/ \E t \in Threads : TaskReturn(t)
    \/ \E t \in Threads : ExecuteStep(t)
    \/ \E t \in Threads : DispatchStep(t)
    \/ \E t \in Threads : WaitForStep(t)
    \/ \E t \in Threads : ShutdownStep(t)
    \/ WakerNotify
    \/ WakerExit
    \/ CallExecute(Main, {"A"}, {PlainTask, SpawnTask("A")})
    \/ CallExecute("P2", {"A"}, {PlainTask})
    \/ \E p \in Producers : CallWaitFor(p, {"A"})
    \/ CallDispatch(Main, {"A"}, {<<2, 1>>})
    \/ CallInitialize(MaxThreadCounts, HardwareCounts)
    \/ CallShutdown

Spec == Init /\ [][Next]_vars

\* LiveSpec: the main thread is the only caller (execute with plain and
\* spawning tasks, wait_for, initialize, shutdown), with the fairness of the
\* threads.  Every thread that exists is scheduled again and again (weak
\* fairness of its own steps); a spurious wake-up is possible but never owed,
\* and the caller owes no further call.  The store to wake_loop becomes visible
\* to the waker's loop (WakerExit is fair).
LiveNext ==
    \/ PoolStep
    \/ \E t \in Threads : TaskReturn(t)
    \/ \E t \in Threads : ExecuteStep(t)
    \/ \E t \in Threads : WaitForStep(t)
    \/ \E t \in Threads : ShutdownStep(t)
    \/ WakerNotify
    \/ WakerExit
    \/ CallExecute(Main, {"A"}, {PlainTask, SpawnTask("A")})
    \/ CallWaitFor(Main, {"A"})
    \/ CallInitialize(MaxThreadCounts, HardwareCounts)
    \/ CallShutdown

ThreadStep(t) ==
    \/ WorkerStep(t) \/ WorkStep(t) \/ TaskReturn(t) \/ ExecuteStep(t)
    \/ DispatchStep(t) \/ WaitForStep(t) \/ InitializeStep(t) \/ ShutdownStep(t)

Fairness ==
    /\ \A t \in Threads : WF_vars(ThreadStep(t))
    /\ WF_vars(WakerNotify)
    /\ WF_vars(WakerExit)

LiveSpec == Init /\ [][LiveNext]_vars /\ Fairness

\* ------------------------------------------------------------ accounting
\* Every frame of every stack, as <<thread, depth>>.
Frames == UNION {{<<t, i>> : i \in 1..Len(stack[t])} : t \in Threads}
FrameAt(x) == stack[x[1]][x[2]]

\* Jobs of Context c that a call has added to the counter and not yet pushed.
AnnouncedBy(fr, c) ==
    IF fr.fn = "execute" /\ fr.ctx = c /\ fr.pc \in {"cursor", "push"} THEN 1
    ELSE IF fr.fn = "dispatch" /\ fr.ctx = c /\ fr.pc \in {"loop", "push"}
         THEN fr.groupCount - fr.groupID
         ELSE 0
\* A thread is inside at most one execute or dispatch call at a time.
AnnouncedOn(t, c) ==
    IF stack[t] = <<>> THEN 0 ELSE AnnouncedBy(Top(t), c)
RECURSIVE AnnouncedSum(_, _)
AnnouncedSum(T, c) ==
    IF T = {} THEN 0
    ELSE LET t == CHOOSE u \in T : TRUE
         IN AnnouncedOn(t, c) + AnnouncedSum(T \ {t}, c)
Announced(c) == AnnouncedSum({t \in Threads : stack[t] # <<>>}, c)

\* Jobs of Context c that some thread has dequeued and not yet counted off.
Executing(c) ==
    Cardinality({x \in Frames : /\ FrameAt(x).fn = "work"
                                /\ FrameAt(x).pc \in {"iter", "dec"}
                                /\ FrameAt(x).job.context = c})

Outstanding(c) == Announced(c) + Queued(c) + Executing(c)

\* C1: the counter of every Context is the number of its jobs that were
\* submitted and have not finished: announced and not yet pushed, sitting in a
\* queue, being executed (or released unexecuted with the queues by a
\* shutdown).  It never wraps below 0, and is_busy is true whenever a job of
\* the Context is queued or running.
C1_CounterAccounting ==
    \A c \in Contexts :
        /\ counter[c] = Outstanding(c) + dropped[c]
        /\ (Outstanding(c) > 0 => is_busy(c))
        /\ (dropped[c] = 0 => (counter[c] = 0 <=> Outstanding(c) = 0))

\* A queued, an executing and an announced job of one Context at once.
C1_Witness ==
    /\ Queued("A") >= 1
    /\ Executing("A") >= 1
    /\ Announced("A") >= 1
    /\ counter["A"] >= 3

\* ------------------------------------------------------------ wait_for
\* Thread p is inside a wait_for call it made itself (not from a task body).
InWaitFor(p) == stack[p] # <<>> /\ stack[p][1].fn = "wait_for"

\* C2: a wait_for made after execute calls on the counter (the tasks may
\* submit further jobs on it), on a scheduler that was never shut down,
\* eventually returns.
C2_WaitForReturns ==
    \A p \in Producers : (InWaitFor(p) /\ shutdowns = 0) ~> ~InWaitFor(p)

\* NestedSpec: the main thread submits tasks that call wait_for from their
\* body, on their own job's counter or on another one, and tasks of that other
\* counter; with the fairness of the threads.
NestedNext ==
    \/ PoolStep
    \/ \E t \in Threads : TaskReturn(t)
    \/ \E t \in Threads : ExecuteStep(t)
    \/ \E t \in Threads : WaitForStep(t)
    \/ CallExecute(Main, {"A"}, {WaitTask("A"), WaitTask("B")})
    \/ CallExecute(Main, {"B"}, {PlainTask, SpawnTask("B")})
    \/ CallInitialize(MaxThreadCounts, HardwareCounts)

NestedSpec == Init /\ [][NestedNext]_vars /\ Fairness

\* Thread t is inside a wait_for called from the body of a task it is running.
NestedWaitFor(t) ==
    \E i \in 2..Len(stack[t]) :
        stack[t][i].fn = "wait_for" /\ stack[t][i - 1].fn = "task"

\* The counters of the jobs thread t is in the middle of executing.
OwnCounters(t) ==
    {stack[t][i].job.context :
        i \in {k \in 1..Len(stack[t]) : /\ stack[t][k].fn = "work"
                                        /\ stack[t][k].pc \in {"iter", "dec"}}}

\* C3: a wait_for called from inside a running task eventually returns,
\* whatever counter it is given.
C3_NestedWaitReturns ==
    \A t \in Threads : NestedWaitFor(t) ~> ~NestedWaitFor(t)

\* The same for a counter that is not the one of a job the thread is running.
NestedWaitOnOther(t) ==
    \E i \in 2..Len(stack[t]) :
        /\ stack[t][i].fn = "wait_for" /\ stack[t][i - 1].fn = "task"
        /\ stack[t][i].ctx \notin OwnCounters(t)
NestedWaitOnOtherReturns ==
    \A t \in Threads : NestedWaitOnOther(t) ~> ~NestedWaitOnOther(t)

\* ------------------------------------------------------------ dispatch
\* DispatchSpec: the main thread initializes the pool, makes one dispatch that
\* is not a no-op, with any 32-bit job count and group size for which the code
\* builds at most MaxGroups jobs, and calls wait_for.
MaxGroups == 3
DispatchSizes ==
    {d \in (0..UIntMax) \X (0..UIntMax) : DispatchCost(d) <= MaxGroups}
DispatchNext ==
    \/ PoolStep
    \/ \E t \in Threads : DispatchStep(t)
    \/ \E t \in Threads : WaitForStep(t)
    \/ calls = <<>> /\ CallDispatch(Main, {"A"}, DispatchSizes)
    \/ CallWaitFor(Main, {"A"})
    \/ CallInitialize(MaxThreadCounts, HardwareCounts)

DispatchSpec == InitWith(MaxGroups + 2) /\ [][DispatchNext]_vars

\* ceil(jobCount / groupSize), in the integers.
Ceil(jobCount, groupSize) == (jobCount + groupSize - 1) \div groupSize

\* The dispatch calls made so far on counter c, by their number.
DispatchedOn(c) ==
    {k \in DOMAIN calls : calls[k].fn = "dispatch" /\ calls[k].ctx = c}
\* The Jobs call k has pushed.
JobsOf(k) == {job \in DOMAIN pushed : job.call = k}
\* Call k has returned: no dispatch frame of it is left.
Returned(k) ==
    \A x \in Frames : ~(FrameAt(x).fn = "dispatch" /\ FrameAt(x).call = k)

\* Every index of call k was passed to the task once, no other index was, and
\* the call was spread over ceil(jobCount / groupSize) Jobs.
EachIndexOnce(k) ==
    /\ \A i \in 0..(calls[k].jobCount - 1) : BagCount(ran, <<k, i>>) = 1
    /\ \A e \in DOMAIN ran : e[1] = k => e[2] \in 0..(calls[k].jobCount - 1)
    /\ Cardinality(JobsOf(k)) = Ceil(calls[k].jobCount, calls[k].groupSize)
    /\ \A job \in JobsOf(k) : pushed[job] = 1

\* wait_for returns to producer p in this step.
WaitForReturns(p) == InWaitFor(p) /\ stack'[p] = <<>>

\* C4: for all job_count > 0 and group_size > 0, when the wait_for that follows
\* a dispatch returns, the task has been invoked exactly once for every index
\* 0..job_count-1 and for no other, over exactly ceil(job_count/group_size)
\* Jobs.
C4_DispatchRunsEachIndexOnce ==
    [][\A p \in Producers :
          WaitForReturns(p) =>
              \A k \in DispatchedOn(stack[p][1].ctx) : EachIndexOnce(k)']_vars

\* The ranges of the Jobs of call k follow the formula, are non-empty, and
\* every index of [0, jobCount) is in exactly one of them.
RangesPartition(k) ==
    LET jobCount == calls[k].jobCount
        groupSize == calls[k].groupSize
    IN /\ {job.group_ID : job \in JobsOf(k)} = 0..(Ceil(jobCount, groupSize) - 1)
       /\ \A job \in JobsOf(k) :
             /\ pushed[job] = 1
             /\ job.group_job_offset = job.group_ID * groupSize
             /\ job.group_job_end = Min(job.group_job_offset + groupSize, jobCount)
             /\ job.group_job_offset < job.group_job_end
       /\ \A i \in 0..(jobCount - 1) :
             Cardinality({job \in JobsOf(k) :
                 job.group_job_offset <= i /\ i < job.group_job_end}) = 1

\* C6: for job_count, group_size > 0 the Jobs a dispatch has built have
\* range_start = g*group_size and range_end = min(range_start + group_size,
\* job_count) for g in [0, group_count); the ranges are non-empty, disjoint and
\* cover exactly [0, job_count).
C6_DispatchRanges ==
    \A k \in DOMAIN calls :
        (calls[k].fn = "dispatch" /\ Returned(k)) => RangesPartition(k)

\* The inputs whose group count the 32-bit sum does not wrap.
NoWrap(k) == calls[k].jobCount + calls[k].groupSize - 1 <= UIntMax
C4_WithoutWrap ==
    [][\A p \in Producers :
          WaitForReturns(p) =>
              \A k \in DispatchedOn(stack[p][1].ctx) :
                  NoWrap(k) => EachIndexOnce(k)']_vars
C6_WithoutWrap ==
    \A k \in DOMAIN calls :
        (calls[k].fn = "dispatch" /\ Returned(k) /\ NoWrap(k)) => RangesPartition(k)

\* ------------------------------------------------------------ producers
\* The sum of the counts of bag b over the elements of S.
RECURSIVE BagSum(_, _)
BagSum(b, S) ==
    IF S = {} THEN 0
    ELSE LET e == CHOOSE x \in S : TRUE IN b[e] + BagSum(b, S \ {e})

\* The number of Jobs the first k calls have announced on counter c.
RECURSIVE AnnouncedUpTo(_, _)
AnnouncedUpTo(k, c) ==
    IF k = 0 THEN 0
    ELSE (IF calls[k].ctx = c THEN calls[k].groupCount ELSE 0)
         + AnnouncedUpTo(k - 1, c)

\* The number of Jobs of counter c whose execution has finished.
Finished(c) == BagSum(done, {job \in DOMAIN done : job.context = c})

\* The execute calls made so far, by their number.
ExecuteCalls == {k \in DOMAIN calls : calls[k].fn = "execute"}
\* Call k has announced its Job and not yet pushed it.
ExecutePending(k) ==
    \E x \in Frames : /\ FrameAt(x).fn = "execute"
                      /\ FrameAt(x).pc \in {"cursor", "push"}
                      /\ FrameAt(x).job.call = k

\* C5: with several producers calling execute on one counter, N calls add
\* exactly N to the counter (it is N less the Jobs finished), each call
\* enqueues exactly one Job, no Job is dequeued twice or run twice, and once
\* the counter is back to 0 every task has run exactly once.
C5_ConcurrentExecute ==
    /\ \A c \in Contexts :
          counter[c] = AnnouncedUpTo(Len(calls), c) - Finished(c)
    /\ \A job \in DOMAIN pushed : pushed[job] = 1
    /\ \A job \in DOMAIN popped : popped[job] = 1 /\ job \in DOMAIN pushed
    /\ \A job \in DOMAIN done : done[job] = 1 /\ job \in DOMAIN popped
    /\ \A e \in DOMAIN ran : ran[e] = 1
    /\ \A k \in ExecuteCalls :
          /\ Cardinality(JobsOf(k)) = IF ExecutePending(k) THEN 0 ELSE 1
          /\ BagCount(ran, <<k, 0>>) = 1 => \E job \in DOMAIN popped : job.call = k
          /\ (counter[calls[k].ctx] = 0 /\ dropped[calls[k].ctx] = 0)
                 => BagCount(ran, <<k, 0>>) = 1

\* Two producers are inside execute at the same time, both Jobs are pushed, and
\* both tasks have already run, each once.
C5_Witness ==
    /\ At("P1", "execute", "notify") /\ At("P2", "execute", "notify")
    /\ Top("P1").job.call # Top("P2").job.call
    /\ \A p \in Producers :
          /\ pushed[Top(p).job] = 1
          /\ BagCount(done, Top(p).job) = 1
          /\ BagCount(ran, <<Top(p).job.call, 0>>) = 1
    /\ counter["A"] = 0

\* ------------------------------------------------------------ lifecycle
\* The main thread is inside shutdown().
InShutdown == stack[Main] # <<>> /\ stack[Main][1].fn = "shutdown"
\* The worker threads of the pool, by name.
PoolWorkers == {WorkerNames[threads[k].id + 1] : k \in DOMAIN threads}

\* C7: after shutdown() has returned, a following initialize restarts the
\* pool: get_thread_count() > 0, the liveness flag is set again and every
\* spawned worker stays in its loop.
C7_ReinitializeRestarts ==
    (shutdowns >= 1 /\ n_threads > 0 /\ ~LifecycleCall) =>
        /\ alive
        /\ \A w \in PoolWorkers : stack[w] # <<>>

\* C8: shutdown() eventually returns, and no worker stays in its loop (parked,
\* about to park or in a work() pass) forever once the liveness flag is
\* cleared: it ends, and is joined.
C8_ShutdownReturns ==
    /\ InShutdown ~> ~InShutdown
    /\ \A w \in WorkerThreads :
          (InShutdown /\ ~alive /\ stack[w] # <<>>) ~> stack[w] = <<>>
    /\ \A k \in 1..Len(WorkerNames) :
          (InShutdown /\ k \in DOMAIN threads) ~>
              (k \in DOMAIN threads /\ threads[k].joined)

\* shutdown() is joining while one worker is parked on the wake condition,
\* another is about to park, and a job is still queued.
C8_Witness ==
    /\ At(Main, "shutdown", "join")
    /\ ~alive
    /\ \E w \in PoolWorkers : Parked(stack, w)
    /\ \E w \in PoolWorkers : At(w, "worker", "wait")
    /\ Queued("A") > 0

\* shutdown() returns in this step.
ShutdownReturns == InShutdown /\ stack'[Main] = <<>>

\* C9: when shutdown() returns every worker has ended and been joined, the
\* waker has ended, the queues are released and get_thread_count() is 0; and
\* the waker is stopped and joined only after every worker was joined.
C9_ShutdownPostcondition ==
    /\ [][ShutdownReturns =>
             /\ \A w \in WorkerThreads : stack[w] = <<>>
             /\ \A k \in DOMAIN threads : threads[k].joined
             /\ stack[Waker] = <<>> /\ ~wake_loop
             /\ job_queue_per_thread' = <<>>
             /\ threads' = <<>>
             /\ n_threads' = 0]_vars
    /\ []((InShutdown /\ (~wake_loop \/ At(Main, "shutdown", "reset"))
                      /\ ~At(Main, "shutdown", "begin"))
          => \A k \in DOMAIN threads : threads[k].joined /\ Joinable(threads[k].id))
    /\ []((At(Main, "shutdown", "join") /\ Top(Main).k <= Len(threads))
          => (wake_loop /\ stack[Waker] # <<>>))

\* shutdown() has returned from a pool of two workers and released a queued job.
C9_Witness ==
    /\ shutdowns >= 1 /\ stack[Main] = <<>>
    /\ n_threads = 0 /\ threads = <<>> /\ job_queue_per_thread = <<>>
    /\ dropped["A"] >= 1
    /\ \A w \in WorkerThreads : stack[w] = <<>>

\* initialize returns from its guard in this step.
InitializeNoOp ==
    /\ At(Main, "initialize", "check")
    /\ n_threads > 0
    /\ stack'[Main] # stack[Main]

\* C10: initialize(m) on an initialized pool is a no-op for every m: the worker
\* count, the threads, the queues and their contents and the round-robin cursor
\* are unchanged and no thread is spawned.
C10_InitializeIdempotent ==
    [][InitializeNoOp =>
          /\ internal' = internal
          /\ counter' = counter
          /\ stack'[Main] = <<>>
          /\ \A t \in Threads \ {Main} : stack'[t] = stack[t]]_vars

\* initialize(m) is called on a pool of another size that holds a queued job.
C10_Witness ==
    /\ At(Main, "initialize", "check")
    /\ n_threads > 0
    /\ Top(Main).maxThreadCount # n_threads
    /\ Queued("A") > 0
    /\ next_queue > 0

\* ------------------------------------------------------------ pending jobs
\* C11: a submitted Job is never dropped: shutdown() discards no pending Job
\* (every per-thread queue is empty at the moment shutdown clears the queues),
\* so no counter is left above 0 by shutdown.
C11_NoJobDropped ==
    /\ \A c \in Contexts : dropped[c] = 0
    /\ At(Main, "shutdown", "reset") =>
           \A q \in DOMAIN job_queue_per_thread : job_queue_per_thread[q] = <<>>

\* ------------------------------------------------------------ no-op dispatch
\* Thread t takes the first step of a dispatch whose job count or group size
\* is zero.
EmptyDispatchStep(t) ==
    /\ At(t, "dispatch", "begin")
    /\ Top(t).jobCount = 0 \/ Top(t).groupSize = 0
    /\ stack'[t] # stack[t]

\* C12: dispatch with job_count == 0 or group_size == 0 returns at once: the
\* counter is unchanged, no Job is enqueued, the round-robin cursor is not
\* advanced and no worker is notified.
C12_EmptyDispatchIsNoOp ==
    [][\A t \in Threads :
          EmptyDispatchStep(t) =>
              /\ stack'[t] = SubSeq(stack[t], 1, Len(stack[t]) - 1)
              /\ \A u \in Threads \ {t} : stack'[u] = stack[u]
              /\ counter' = counter
              /\ internal' = internal
              /\ history' = history]_vars

\* A dispatch of zero jobs with a non-zero group size is about to start while
\* a worker is parked on the wake condition.
C12_Witness ==
    /\ At(Main, "dispatch", "begin")
    /\ Top(Main).jobCount = 0 /\ Top(Main).groupSize > 0
    /\ \E w \in PoolWorkers : Parked(stack, w)

\* ------------------------------------------------------------ round robin
\* The number of Jobs pushed so far.
TotalPushed == BagSum(pushed, DOMAIN pushed)
\* The Jobs that have drawn their queue from the cursor and are not yet pushed.
Drawn ==
    Cardinality({x \in Frames : /\ FrameAt(x).fn \in {"execute", "dispatch"}
                                /\ FrameAt(x).pc = "push"})
\* Thread t draws the queue of its next Job from the cursor in this step.
DrawsQueue(t) ==
    /\ At(t, "execute", "cursor") \/ At(t, "dispatch", "loop")
    /\ stack'[t] # stack[t]

\* C13: over any sequence of execute, dispatch and wait_for calls the i-th Job
\* enqueued since initialize (counted from 0, in the order of the cursor) is
\* placed on queue i mod worker_count, so consecutive Jobs go to consecutive
\* queues and the queues' totals differ by at most one.
C13_RoundRobin ==
    [][\A t \in Threads :
          (shutdowns = 0 /\ DrawsQueue(t)) =>
              stack'[t][Len(stack'[t])].q = (TotalPushed + Drawn) % n_threads]_vars

\* ------------------------------------------------------------ is_busy
\* A call of is_busy(ctx) by a thread of the program: the load of the counter,
\* then the return of the value read.
IsBusyFrame(ctx) == [fn |-> "is_busy", pc |-> "load", ctx |-> ctx, result |-> FALSE]

\* return ctx.counter.load() > 0;
IsBusyLoad(t) ==
    /\ At(t, "is_busy", "load")
    /\ stack' = SetTop(stack, t,
           [Top(t) EXCEPT !.result = is_busy(Top(t).ctx), !.pc = "ret"])
    /\ UNCHANGED <<aside, lck, internal, counter, shared_allocation_data, history, budget>>

\* The caller takes the value.
IsBusyReturn(t) ==
    /\ At(t, "is_busy", "ret")
    /\ stack' = Pop(stack, t)
    /\ UNCHANGED <<aside, lck, internal, counter, shared_allocation_data, history, budget>>

IsBusyStep(t) == IsBusyLoad(t) \/ IsBusyReturn(t)

\* is_busy needs no initialized pool and costs nothing.
CallIsBusy(p, ctxs) ==
    /\ Idle(p)
    /\ \E c \in ctxs : stack' = Push(stack, p, IsBusyFrame(c))
    /\ UNCHANGED <<aside, lck, internal, counter, shared_allocation_data, history, budget>>

\* PollSpec: the main thread initializes the pool, submits plain tasks on one
\* counter and waits for them, while a second thread polls is_busy on that
\* counter and on one nothing was ever submitted with.
PollNext ==
    \/ PoolStep
    \/ \E t \in Threads : ExecuteStep(t)
    \/ \E t \in Threads : WaitForStep(t)
    \/ \E t \in Threads : IsBusyStep(t)
    \/ CallExecute(Main, {"A"}, {PlainTask})
    \/ CallWaitFor(Main, {"A"})
    \/ CallIsBusy("P2", Contexts)
    \/ CallInitialize(MaxThreadCounts, HardwareCounts)

PollSpec == Init /\ [][PollNext]_vars

\* Thread t is inside is_busy, about to read the counter.
IsBusyReads(t) == At(t, "is_busy", "load")

\* C14: is_busy(counter) returns true iff the counter is > 0 at the instant it
\* is read, never blocks, and changes neither the counter nor any scheduler
\* state; on a counter nothing was submitted with it returns false.
C14_IsBusy ==
    /\ [][\A t \in Threads :
             (IsBusyReads(t) /\ stack'[t] # stack[t]) =>
                 /\ stack'[t][Len(stack'[t])].pc = "ret"
                 /\ stack'[t][Len(stack'[t])].result = (counter[Top(t).ctx] > 0)
                 /\ \A u \in Threads \ {t} : stack'[u] = stack[u]
                 /\ counter' = counter
                 /\ internal' = internal
                 /\ history' = history]_vars
    /\ [](\A t \in Threads : IsBusyReads(t) => ENABLED IsBusyLoad(t))
    /\ [](\A t \in Threads :
             (At(t, "is_busy", "ret") /\ AnnouncedUpTo(Len(calls), Top(t).ctx) = 0)
                 => ~Top(t).result)

\* is_busy has read a busy counter and not yet returned, and the counter has
\* gone back to 0 meanwhile.
C14_Witness ==
    /\ At("P2", "is_busy", "ret")
    /\ Top("P2").result
    /\ counter[Top("P2").ctx] = 0

\* ------------------------------------------------------------ idle wait_for
\* Thread t takes the first step of a wait_for on a counter that is 0.
IdleWaitStep(t) ==
    /\ At(t, "wait_for", "busy")
    /\ counter[Top(t).ctx] = 0
    /\ stack'[t] # stack[t]

\* C15: wait_for on a counter that is not busy returns immediately and leaves
\* the scheduler untouched: no worker is notified, the round-robin cursor is
\* not advanced, no Job is dequeued or executed.
C15_IdleWaitIsNoOp ==
    [][\A t \in Threads :
          IdleWaitStep(t) =>
              /\ stack'[t] = SubSeq(stack[t], 1, Len(stack[t]) - 1)
              /\ \A u \in Threads \ {t} : stack'[u] = stack[u]
              /\ counter' = counter
              /\ internal' = internal
              /\ history' = history]_vars

\* wait_for is called on an idle counter while a worker is parked and the
\* other counter has a Job queued.
C15_Witness ==
    \E t \in Threads :
        /\ At(t, "wait_for", "busy")
        /\ counter[Top(t).ctx] = 0
        /\ \E w \in PoolWorkers : Parked(stack, w)
        /\ \E c \in Contexts : Queued(c) > 0

\* ------------------------------------------------------------ FIFO
\* The queues that exist before and after this step.
StableQueues == DOMAIN job_queue_per_thread \cap DOMAIN job_queue_per_thread'
\* Thread t holds Job job as the one its work() has just popped.
JustPopped(t, job) ==
    /\ stack'[t] # <<>>
    /\ stack'[t][Len(stack'[t])].fn = "work"
    /\ stack'[t][Len(stack'[t])].job = job
    /\ stack'[t] # stack[t]
\* Thread t's pop_front finds its queue empty in this step.
PopsEmpty(t) ==
    /\ At(t, "work", "pop")
    /\ job_queue_per_thread[QueueIndex(Top(t).startingQueue) + 1] = <<>>
    /\ stack'[t] # stack[t]

\* C16: each queue is FIFO under concurrent use: a step changes a queue only
\* by appending one Job at the back (push_back) or by removing the oldest Job,
\* which is the one handed to the popping thread (pop_front), and never more
\* than one queue at a time; pop_front on an empty queue changes no queue and
\* hands out no Job.
C16_QueueFifo ==
    [][/\ \A q \in StableQueues :
             LET old == job_queue_per_thread[q]
                 new == job_queue_per_thread'[q]
             IN \/ new = old
                \/ /\ Len(new) = Len(old) + 1
                   /\ SubSeq(new, 1, Len(old)) = old
                   /\ pushed' = BagAdd(pushed, new[Len(new)])
                   /\ \A r \in StableQueues \ {q} :
                         job_queue_per_thread'[r] = job_queue_per_thread[r]
                \/ /\ old # <<>>
                   /\ new = Tail(old)
                   /\ popped' = BagAdd(popped, Head(old))
                   /\ \E t \in Threads : JustPopped(t, Head(old))
                   /\ \A r \in StableQueues \ {q} :
                         job_queue_per_thread'[r] = job_queue_per_thread[r]
       /\ \A t \in Threads :
             PopsEmpty(t) =>
                 /\ job_queue_per_thread' = job_queue_per_thread
                 /\ popped' = popped
                 /\ \A u \in Threads \ {t} : stack'[u] = stack[u]]_vars

\* A queue holds two different Jobs and a thread is about to pop from it, while
\* a producer is about to push onto it.
C16_Witness ==
    \E q \in DOMAIN job_queue_per_thread, t \in Threads, p \in Producers :
        /\ Len(job_queue_per_thread[q]) >= 2
        /\ job_queue_per_thread[q][1] # job_queue_per_thread[q][2]
        /\ At(t, "work", "pop") /\ QueueIndex(Top(t).startingQueue) + 1 = q
        /\ At(p, "execute", "push") /\ Top(p).q + 1 = q

\* ------------------------------------------------------------ groups
\* The work() frames that are executing Job job.
Executors(job) ==
    {x \in Frames : /\ FrameAt(x).fn = "work"
                    /\ FrameAt(x).pc \in {"iter", "dec"}
                    /\ FrameAt(x).job = job}
\* Thread t passes one iteration to the task in this step.
Invokes(t) ==
    /\ At(t, "work", "iter")
    /\ ran' = BagAdd(ran, <<Top(t).job.call, Top(t).j>>)

\* C17: the iterations of one group are executed by the single thread that
\* dequeued its Job, in strictly increasing index order and never two at a
\* time: a Job is held by one work() frame only, and each invocation is that
\* of the frame's index j, with every lower index of the group already run
\* once and no higher one run yet.
C17_GroupSequential ==
    /\ [](\A x \in Frames :
             (FrameAt(x).fn = "work" /\ FrameAt(x).pc \in {"iter", "dec"})
                 => /\ Executors(FrameAt(x).job) = {x}
                    /\ BagCount(popped, FrameAt(x).job) = 1)
    /\ [][\A t \in Threads :
             Invokes(t) =>
                 LET job == Top(t).job
                     j == Top(t).j
                 IN /\ job.group_job_offset <= j /\ j < job.group_job_end
                    /\ \A i \in job.group_job_offset..(j - 1) :
                          BagCount(ran, <<job.call, i>>) = 1
                    /\ \A i \in j..(job.group_job_end - 1) :
                          BagCount(ran, <<job.call, i>>) = 0]_vars

\* Two threads are executing two groups of one dispatch at the same time, one
\* of them past its group's first iteration.
C17_Witness ==
    \E t, u \in Threads :
        /\ t # u
        /\ At(t, "work", "iter") /\ At(u, "work", "iter")
        /\ Top(t).job.call = Top(u).job.call
        /\ Top(t).job.group_ID # Top(u).job.group_ID
        /\ Top(t).j > Top(t).job.group_job_offset

\* ------------------------------------------------------------ JobArgs
\* ArgsSpec: the main thread initializes the pool, makes one dispatch with
\* groups of one, two or four iterations and calls execute with plain and
\* spawning tasks.
ArgsSizes == {<<1, 1>>, <<3, 2>>, <<4, 4>>}
ArgsNext ==
    \/ PoolStep
    \/ \E t \in Threads : TaskReturn(t)
    \/ \E t \in Threads : ExecuteStep(t)
    \/ \E t \in Threads : DispatchStep(t)
    \/ calls = <<>> /\ CallDispatch(Main, {"A"}, ArgsSizes)
    \/ CallExecute(Main, {"A"}, {PlainTask, SpawnTask("A")})
    \/ CallInitialize(MaxThreadCounts, HardwareCounts)

ArgsSpec == Init /\ [][ArgsNext]_vars

\* The work() frames that are about to invoke their task.
Invoking ==
    {x \in Frames : /\ x[2] = Len(stack[x[1]])
                    /\ FrameAt(x).fn = "work" /\ FrameAt(x).pc = "iter"}

\* C18: for every task invocation group_index = job_index - range_start,
\* is_first_job_in_group iff job_index = range_start, is_last_job_in_group iff
\* job_index = range_end - 1; a Job made by execute is invoked once, with
\* job_index 0, group_ID 0, group_index 0, both flags true and a null
\* shared-memory pointer.
C18_JobArgs ==
    \A x \in Invoking :
        LET job == FrameAt(x).job
            args == Args(FrameAt(x))
        IN /\ job.group_job_offset <= args.job_index
           /\ args.job_index < job.group_job_end
           /\ args.group_ID = job.group_ID
           /\ args.group_index = args.job_index - job.group_job_offset
           /\ args.is_first_job_in_group <=> (args.job_index = job.group_job_offset)
           /\ args.is_last_job_in_group <=> (args.job_index = job.group_job_end - 1)
           /\ calls[job.call].fn = "execute" =>
                  /\ args = [job_index |-> 0, group_ID |-> 0, group_index |-> 0,
                             is_first_job_in_group |-> TRUE,
                             is_last_job_in_group |-> TRUE,
                             sharedmemory |-> 0]
                  /\ BagCount(ran, <<job.call, 0>>) = 0
                  /\ \A e \in DOMAIN ran : e[1] = job.call => e = <<job.call, 0>>

\* One thread is at the last iteration of a two-iteration group while another
\* is about to invoke the task of an execute call.
C18_Witness ==
    \E x, y \in Invoking :
        /\ FrameAt(x).job.group_job_end = FrameAt(x).job.group_job_offset + 2
        /\ Args(FrameAt(x)).group_index = 1
        /\ Args(FrameAt(x)).is_last_job_in_group
        /\ ~Args(FrameAt(x)).is_first_job_in_group
        /\ calls[FrameAt(y).job.call].fn = "execute"

\* ------------------------------------------------------------ worker count
\* InitSpec: initialize is called with every requested count up to
\* MaxRequested on machines that report 0 to MaxRequested + 1 hardware
\* threads; plain tasks are then submitted to the pool.
MaxRequested == 3
InitNext ==
    \/ PoolStep
    \/ \E t \in Threads : ExecuteStep(t)
    \/ CallExecute(Main, {"A"}, {PlainTask})
    \/ CallInitialize(0..MaxRequested, 0..(MaxRequested + 1))

InitSpec == Init /\ [][InitNext]_vars

\* C19: for every requested max_thread_count >= 0 and every hardware thread
\* count h >= 0 initialize on an uninitialized scheduler sets the worker count
\* to max(1, min(max_thread_count, h - 1)), computed in the integers.
C19_WorkerCount ==
    At(Main, "initialize", "spawn") =>
        n_threads = Max(1, Min(Top(Main).maxThreadCount,
                               Top(Main).hardware_concurrency - 1))

\* ------------------------------------------------------------ SpinLock
\* The iterations lock() spins before it starts to yield: if (spin < 10).
SpinLimit == 10

\* A mutant: try_lock reports success whatever the flag held.
try_lock_blind(flag) == TRUE
\* try_lock: !lck.test_and_set(), on the value the flag held.
try_lock(flag) == ~flag

\* spin++ on the int of lock().  Only spin < 10 is ever tested, so the count is
\* kept up to SpinLimit, which stands for every value from 10 on; from there
\* the int eventually overflows, which is undefined: any count may follow.
NextSpin(spin) == IF spin < SpinLimit THEN {spin + 1} ELSE 0..SpinLimit

\* A thread's frames: inside lock(), inside try_lock(), inside unlock(), and
\* between an acquisition and its unlock() (the caller's critical section).
LockFrame == [fn |-> "lock", pc |-> "try", spin |-> 0]
TryLockFrame == [fn |-> "try_lock", pc |-> "test"]
UnlockFrame == [fn |-> "unlock", pc |-> "clear"]
HoldingFrame == [fn |-> "holding", pc |-> "in"]

\* Thread t is between an acquisition of the lock and its unlock().
Holds(t) == \E i \in 1..Len(stack[t]) : stack[t][i].fn = "holding"

\* One turn of while (!try_lock()) { ... spin++; } in lock().
SpinLockTry(t) ==
    /\ At(t, "lock", "try")
    /\ lck' = TRUE
    /\ IF try_lock(lck)
       THEN stack' = Push(Pop(stack, t), t, HoldingFrame)
       ELSE \E n \in NextSpin(Top(t).spin) :
               stack' = SetTop(stack, t, [Top(t) EXCEPT !.spin = n])
    /\ UNCHANGED <<aside, internal, counter, shared_allocation_data, history, budget>>

\* try_lock() called by the program: one test_and_set, and the answer.
TryLockTest(t) ==
    /\ At(t, "try_lock", "test")
    /\ lck' = TRUE
    /\ stack' = IF try_lock(lck)
                THEN Push(Pop(stack, t), t, HoldingFrame)
                ELSE Pop(stack, t)
    /\ UNCHANGED <<aside, internal, counter, shared_allocation_data, history, budget>>

\* unlock(): lck.clear(), and the critical section is over.
UnlockClear(t) ==
    /\ At(t, "unlock", "clear")
    /\ lck' = FALSE
    /\ stack' = Pop(Pop(stack, t), t)
    /\ UNCHANGED <<aside, internal, counter, shared_allocation_data, history, budget>>

\* The calls: lock() and try_lock() by any thread, also one that holds the
\* lock already; unlock() by the thread that holds it.
CallLock(p) ==
    /\ Idle(p) \/ At(p, "holding", "in")
    /\ stack' = Push(stack, p, LockFrame)
    /\ UNCHANGED <<aside, lck, internal, counter, shared_allocation_data, history, budget>>

CallTryLock(p) ==
    /\ Idle(p) \/ At(p, "holding", "in")
    /\ stack' = Push(stack, p, TryLockFrame)
    /\ UNCHANGED <<aside, lck, internal, counter, shared_allocation_data, history, budget>>

CallUnlock(p) ==
    /\ At(p, "holding", "in")
    /\ stack' = Push(stack, p, UnlockFrame)
    /\ UNCHANGED <<aside, lck, internal, counter, shared_allocation_data, history, budget>>

\* SpinSpec: two threads use one SpinLock with lock(), try_lock() and unlock().
SpinNext ==
    \E p \in Producers :
        \/ SpinLockTry(p) \/ TryLockTest(p) \/ UnlockClear(p)
        \/ CallLock(p) \/ CallTryLock(p) \/ CallUnlock(p)

SpinSpec == Init /\ [][SpinNext]_vars

\* The threads that hold the lock.
Holders == {t \in Threads : Holds(t)}
\* Thread t leaves lock() or try_lock() in this step having acquired the lock.
Acquires(t) ==
    /\ At(t, "lock", "try") \/ At(t, "try_lock", "test")
    /\ Len(stack'[t]) = Len(stack[t])
    /\ stack'[t][Len(stack'[t])] = HoldingFrame
\* Thread t is inside a lock() it called while holding the lock.
LocksAgain(t) == At(t, "lock", "try") /\ Holds(t)

\* C20: SpinLock gives mutual exclusion: at most one thread is between an
\* acquisition and its unlock(), and the flag is set exactly then; lock() and
\* try_lock() acquire only a lock that was free at that instant; try_lock()
\* never blocks and answers true iff the lock was free; lock() returns only
\* by acquiring; a lock() by the thread that holds the lock never returns.
C20_SpinLock ==
    /\ [](Cardinality(Holders) <= 1 /\ (lck <=> Holders # {}))
    /\ [](\A t \in Threads : At(t, "try_lock", "test") => ENABLED TryLockTest(t))
    /\ [][\A t \in Threads :
             /\ Acquires(t) => (~lck /\ lck' /\ Holders = {})
             /\ (At(t, "try_lock", "test") /\ stack'[t] # stack[t])
                    => (Acquires(t) <=> ~lck)
             /\ (At(t, "lock", "try") /\ ~Acquires(t))
                    => (stack'[t] # <<>> /\ stack'[t][Len(stack'[t])].fn = "lock")
             /\ LocksAgain(t)
                    => (stack'[t] # <<>> /\ stack'[t][Len(stack'[t])].fn = "lock")]_vars

\* One thread holds the lock and is inside a second lock() on it, while the
\* other has spun in lock() up to the yielding branch.
C20_Witness ==
    \E t, u \in Producers :
        /\ t # u
        /\ LocksAgain(t)
        /\ At(u, "lock", "try") /\ Top(u).spin = SpinLimit
        /\ lck

\* ------------------------------------------------------------ Logger
\* Bounds of the Logger's inputs.
MaxLogs == 3
MaxBufferSize == 2
MaxHooks == 2

\* The target files a Logger is made with: none, one that opens, one that
\* does not (file.fail()).
Targets == {"", "log.txt", "/missing/log.txt"}
Opens(target) == target = "log.txt"
Hooks == {"h1", "h2"}
\* The levels a Logger is made with and the LogIDs logged.
Levels == {LOG_EVERYTHING, LOG_INFO, LOG_FATAL}
Logged == {LOG_INFO, LOG_FATAL}

\* const char* LogID_str(LogID id).
LogID_str(id) ==
    CASE id = LOG_INFO -> "INFO   "
      [] id = LOG_DEBUG -> "DEBUG  "
      [] id = LOG_WARNING -> "WARNING"
      [] id = LOG_ERROR -> "ERROR  "
      [] id = LOG_FATAL -> "FATAL  "
      [] OTHER -> "UNKNOWN"

\* file << "[" << LogID_str(id) << "] " << msg << std::endl, for one entry.
Line(log) == <<"[", LogID_str(log[1]), "] ">> \o log[2]
Lines(buffer) == [i \in 1..Len(buffer) |-> Line(buffer[i])]

\* try_write_to_target(): the Logger and its file afterwards, as a pair.
try_write_to_target(l, file) ==
    IF l.m_log_target = "" \/ ~Opens(l.m_log_target)
    THEN <<l, file>>
    ELSE <<[l EXCEPT !.m_buffer = <<>>], file \o Lines(l.m_buffer)>>

\* A mutant: the buffer is written once it holds more than the maximum.
BufferOver(size, max) == size > max
\* if (m_buffer.size() >= m_max_buffer_size) of buffer_put.
BufferFull(size, max) == size >= max

\* buffer_put(_log): the Logger and its file afterwards, as a pair.
buffer_put(l, file, log) ==
    LET put == [l EXCEPT !.m_buffer = Append(@, log)]
    IN  IF BufferFull(Len(put.m_buffer), put.m_max_buffer_size)
        THEN try_write_to_target(put, file)
        ELSE <<put, file>>

\* buffer_size().
buffer_size == Len(logger.m_buffer)

\* A mutant: a log at the configured level itself is turned away.
AboveLevel(id, level) == id > level
\* log's filter: if (_id < m_max_level) return false.
Accepted(id, level) == ~(id < level)

\* msg of log(): the timestamp and two blanks when asked for, then _msg.
Message(text, timestamp) ==
    IF timestamp THEN <<"(timestamp)", "  ", text>> ELSE <<text>>

LogFrame(id, text, timestamp) ==
    [fn |-> "log", pc |-> "level", id |-> id, text |-> text,
     timestamp |-> timestamp, msg |-> <<>>, hook |-> 1, ret |-> FALSE]

\* Logger::make(targetfile, buffersize, maxloglevel).
LoggerMake(target, buffersize, level) ==
    /\ Idle(Main)
    /\ ~loghist.made
    /\ logger' = [NewLogger EXCEPT !.m_log_target = target,
                                   !.m_max_buffer_size = buffersize,
                                   !.m_max_level = level]
    /\ loghist' = [loghist EXCEPT !.made = TRUE]
    /\ UNCHANGED <<lck, locker, staging, logfile, internal, counter,
                   shared_allocation_data, stack, history, budget>>

\* add_log_hook(_hook).
AddLogHook(hook) ==
    /\ Idle(Main)
    /\ loghist.made
    /\ Len(logger.m_log_hooks) < MaxHooks
    /\ logger' = [logger EXCEPT !.m_log_hooks = Append(@, hook)]
    /\ UNCHANGED <<lck, locker, staging, logfile, loghist, internal, counter,
                   shared_allocation_data, stack, history, budget>>

\* clear_logfile().
ClearLogfile ==
    /\ Idle(Main)
    /\ loghist.made
    /\ budget > 0
    /\ budget' = budget - 1
    /\ logger' = [logger EXCEPT !.m_buffer = <<>>]
    /\ logfile' = IF logger.m_log_target # "" /\ Opens(logger.m_log_target)
                  THEN <<>>
                  ELSE logfile
    /\ loghist' = [loghist EXCEPT !.logged = <<>>]
    /\ UNCHANGED <<lck, locker, staging, internal, counter,
                   shared_allocation_data, stack, history>>

\* A call of log(_id, _msg, timestamp); info, debug, warn, error and fatal
\* are this call with their LogID.
CallLog(id, timestamp) ==
    /\ Idle(Main)
    /\ loghist.made
    /\ budget > 0
    /\ budget' = budget - 1
    /\ stack' = Push(stack, Main, LogFrame(id, budget, timestamp))
    /\ loghist' = [loghist EXCEPT !.hooked = <<>>]
    /\ UNCHANGED <<lck, locker, staging, logger, logfile, internal, counter,
                   shared_allocation_data, history>>

\* if (_id < m_max_level) return false; ... msg += _msg.
LogLevel(t) ==
    /\ At(t, "log", "level")
    /\ stack' = SetTop(stack, t,
           IF Accepted(Top(t).id, logger.m_max_level)
           THEN [Top(t) EXCEPT !.pc = "hooks",
                               !.msg = Message(Top(t).text, Top(t).timestamp)]
           ELSE [Top(t) EXCEPT !.pc = "return", !.ret = FALSE])
    /\ UNCHANGED <<lck, aside, internal, counter, shared_allocation_data,
                   history, budget>>

\* for (auto hook : m_log_hooks) hook(_id, msg): one hook, or the loop's end.
LogHooks(t) ==
    /\ At(t, "log", "hooks")
    /\ IF Top(t).hook <= Len(logger.m_log_hooks)
       THEN /\ loghist' = [loghist EXCEPT !.hooked =
                   Append(@, <<logger.m_log_hooks[Top(t).hook], Top(t).id, Top(t).msg>>)]
            /\ stack' = SetTop(stack, t, [Top(t) EXCEPT !.hook = @ + 1])
       ELSE /\ stack' = Goto(stack, t, "put")
            /\ UNCHANGED loghist
    /\ UNCHANGED <<lck, locker, staging, logger, logfile, internal, counter,
                   shared_allocation_data, history, budget>>

\* buffer_put({_id, msg}); return true.
LogPut(t) ==
    /\ At(t, "log", "put")
    /\ LET after == buffer_put(logger, logfile, <<Top(t).id, Top(t).msg>>)
       IN  /\ logger' = after[1]
           /\ logfile' = after[2]
    /\ loghist' = [loghist EXCEPT !.logged = Append(@, <<Top(t).id, Top(t).msg>>)]
    /\ stack' = SetTop(stack, t, [Top(t) EXCEPT !.pc = "return", !.ret = TRUE])
    /\ UNCHANGED <<lck, locker, staging, internal, counter,
                   shared_allocation_data, history, budget>>

LogReturn(t) ==
    /\ At(t, "log", "return")
    /\ stack' = Pop(stack, t)
    /\ UNCHANGED <<lck, aside, internal, counter, shared_allocation_data,
                   history, budget>>

\* LogSpec: one Logger is made, given hooks, logged to and cleared.
LogNext ==
    \/ \E target \in Targets, size \in 0..MaxBufferSize, level \in Levels :
           LoggerMake(target, size, level)
    \/ \E hook \in Hooks : AddLogHook(hook)
    \/ ClearLogfile
    \/ \E id \in Logged, timestamp \in BOOLEAN : CallLog(id, timestamp)
    \/ LogLevel(Main) \/ LogHooks(Main) \/ LogPut(Main) \/ LogReturn(Main)

LogSpec == InitWith(MaxLogs) /\ [][LogNext]_vars

\* The Logger has a target file that opens and a maximum buffer size >= 1.
WritingLogger ==
    /\ loghist.made
    /\ Opens(logger.m_log_target)
    /\ logger.m_max_buffer_size >= 1

\* C21: with a target file that opens and a maximum buffer size M >= 1, after
\* n accepted logs since the last clear the buffer holds n mod M entries, so
\* fewer than M whenever log has returned, and the file holds the entries
\* logged before them, in the order they were logged.
C21_LoggerBuffering ==
    WritingLogger =>
        /\ buffer_size = Len(loghist.logged) % logger.m_max_buffer_size
        /\ buffer_size < logger.m_max_buffer_size
        /\ logfile \o Lines(logger.m_buffer) = Lines(loghist.logged)

\* Three logs were accepted with M = 2: two are in the file, one is buffered.
C21_Witness ==
    /\ WritingLogger
    /\ Idle(Main)
    /\ logger.m_max_buffer_size = 2
    /\ Len(loghist.logged) = 3
    /\ Len(logfile) = 2
    /\ buffer_size = 1

\* Thread t is inside log().
InLog(t) == stack[t] # <<>> /\ Top(t).fn = "log"
\* The hook calls log() owes for the call thread t is in: every registered
\* hook once, in registration order, with the call's id and message.
HooksOwed(t) ==
    [i \in 1..Len(logger.m_log_hooks) |->
        <<logger.m_log_hooks[i], Top(t).id,
          Message(Top(t).text, Top(t).timestamp)>>]

\* C22: log(id, msg) returns true iff id >= the configured level; when it
\* returns true every registered hook was invoked exactly once with that id,
\* in registration order, and the entry was appended only after the last of
\* them; when it returns false no hook was invoked and the buffer (and the
\* file) are as they were.
C22_LoggerLog ==
    /\ [](At(Main, "log", "return") =>
            /\ Top(Main).ret <=> (Top(Main).id >= logger.m_max_level)
            /\ loghist.hooked = IF Top(Main).ret THEN HooksOwed(Main) ELSE <<>>)
    /\ [][InLog(Main) =>
            /\ (logger' # logger \/ logfile' # logfile)
                   => /\ Top(Main).id >= logger.m_max_level
                      /\ loghist.hooked = HooksOwed(Main)
                      /\ loghist'.hooked = loghist.hooked
            /\ Top(Main).id < logger.m_max_level
                   => /\ loghist'.hooked = <<>>
                      /\ UNCHANGED <<logger, logfile>>]_vars

\* log returns true after the two registered hooks ran, "h1" before "h2".
C22_Witness ==
    /\ At(Main, "log", "return")
    /\ Top(Main).ret
    /\ Top(Main).id = logger.m_max_level
    /\ logger.m_log_hooks = <<"h1", "h2">>
    /\ Len(loghist.hooked) = 2
    /\ loghist.hooked[1][1] = "h1"

\* ------------------------------------------------------------ SceneHandle
\* A mutant: can_update() answers for the scene, not for the ready flag.
has_scene(handle) == handle.m_scene # NoScene
\* can_update(), on a SceneHandle.
can_update(handle) ==
    IF handle.m_scene = NoScene THEN FALSE ELSE handle.m_ready

AsyncInitFrame(h) ==
    [fn |-> "async_init", pc |-> "null", h |-> h, ret |-> FALSE,
     seen |-> scenes[h].inits]
AsyncDestroyFrame(h) ==
    [fn |-> "async_destroy", pc |-> "null", h |-> h, ret |-> FALSE,
     seen |-> scenes[h].inits, gone |-> scenes[h].destroys]

\* make<Scene>(args): m_scene = std::make_shared<Scene>(args).
SceneMake(h) ==
    /\ Idle(Main)
    /\ budget > 0
    /\ budget' = budget - 1
    /\ handles' = [handles EXCEPT ![h].m_scene = "scene"]
    /\ UNCHANGED <<lck, locker, logging, scenes, internal, counter,
                   shared_allocation_data, stack, history>>

CallAsyncInit(h) ==
    /\ Idle(Main)
    /\ budget > 0
    /\ budget' = budget - 1
    /\ stack' = Push(stack, Main, AsyncInitFrame(h))
    /\ UNCHANGED <<lck, aside, internal, counter, shared_allocation_data,
                   history>>

CallAsyncDestroy(h) ==
    /\ Idle(Main)
    /\ budget > 0
    /\ budget' = budget - 1
    /\ stack' = Push(stack, Main, AsyncDestroyFrame(h))
    /\ UNCHANGED <<lck, aside, internal, counter, shared_allocation_data,
                   history>>

\* if (m_scene == nullptr) return false, of async_init and of async_destroy.
SceneNull(t) ==
    /\ At(t, "async_init", "null") \/ At(t, "async_destroy", "null")
    /\ stack' = Goto(stack, t,
           IF handles[Top(t).h].m_scene = NoScene THEN "return"
           ELSE IF Top(t).fn = "async_init" THEN "init" ELSE "store")
    /\ UNCHANGED <<lck, aside, internal, counter, shared_allocation_data,
                   history, budget>>

\* m_scene.get()->init(), which both functions call.
SceneInit(t) ==
    /\ At(t, "async_init", "init") \/ At(t, "async_destroy", "init")
    /\ scenes' = [scenes EXCEPT ![Top(t).h].inits = @ + 1]
    /\ stack' = SetTop(stack, t,
           IF Top(t).fn = "async_init"
           THEN [Top(t) EXCEPT !.pc = "store"]
           ELSE [Top(t) EXCEPT !.pc = "return", !.ret = TRUE])
    /\ UNCHANGED <<lck, locker, logging, handles, internal, counter,
                   shared_allocation_data, history, budget>>

\* m_ready.store(true) of async_init, m_ready.store(false) of async_destroy.
SceneStore(t) ==
    /\ At(t, "async_init", "store") \/ At(t, "async_destroy", "store")
    /\ handles' = [handles EXCEPT ![Top(t).h].m_ready = (Top(t).fn = "async_init")]
    /\ stack' = SetTop(stack, t,
           IF Top(t).fn = "async_init"
           THEN [Top(t) EXCEPT !.pc = "return", !.ret = TRUE]
           ELSE [Top(t) EXCEPT !.pc = "init"])
    /\ UNCHANGED <<lck, locker, logging, scenes, internal, counter,
                   shared_allocation_data, history, budget>>

SceneReturn(t) ==
    /\ At(t, "async_init", "return") \/ At(t, "async_destroy", "return")
    /\ stack' = Pop(stack, t)
    /\ scenes' = IF Top(t).ret
                 THEN [scenes EXCEPT ![Top(t).h].last = Top(t).fn]
                 ELSE scenes
    /\ UNCHANGED <<lck, locker, logging, handles, internal, counter,
                   shared_allocation_data, history, budget>>

\* SceneSpec: two SceneHandles are made, initialised and destroyed.
SceneNext ==
    \/ \E h \in HandleNames :
           SceneMake(h) \/ CallAsyncInit(h) \/ CallAsyncDestroy(h)
    \/ SceneNull(Main) \/ SceneInit(Main) \/ SceneStore(Main)
    \/ SceneReturn(Main)

SceneSpec == InitWith(MaxBudget + 2) /\ [][SceneNext]_vars

\* Thread t is inside async_init() or async_destroy() on handle h.
InSceneCall(t, h) ==
    /\ stack[t] # <<>>
    /\ Top(t).fn \in {"async_init", "async_destroy"}
    /\ Top(t).h = h

\* C23: can_update() is false for a handle until an async_init() has
\* completed on it, true from then on, and false again after async_destroy();
\* async_init() calls the scene's init() exactly once and sets the ready flag
\* only after init() has returned; a call on one handle never changes another
\* handle.
C23_SceneHandleReady ==
    /\ [](\A h \in HandleNames :
            /\ Idle(Main) =>
                   (can_update(handles[h]) <=> scenes[h].last = "async_init")
            /\ can_update(handles[h]) =>
                   \/ scenes[h].last = "async_init"
                   \/ At(Main, "async_init", "return") /\ Top(Main).h = h
            /\ (At(Main, "async_init", "return") /\ Top(Main).h = h /\ Top(Main).ret)
                   => scenes[h].inits = Top(Main).seen + 1)
    /\ [][\A h \in HandleNames :
            /\ (handles'[h].m_ready /\ ~handles[h].m_ready)
                   => /\ At(Main, "async_init", "store") /\ Top(Main).h = h
                      /\ scenes[h].inits = Top(Main).seen + 1
            /\ InSceneCall(Main, h)
                   => \A g \in HandleNames \ {h} :
                          handles'[g] = handles[g] /\ scenes'[g] = scenes[g]]_vars

\* One handle was initialised and destroyed, the other initialised: only the
\* second can update.
C23_Witness ==
    /\ Idle(Main)
    /\ scenes["game"].last = "async_destroy"
    /\ scenes["menu"].last = "async_init"
    /\ ~can_update(handles["game"])
    /\ can_update(handles["menu"])

\* ------------------------------------------------------------ decrements
\* The iterations of a Job: [group_job_offset, group_job_end).
JobRange(job) ==
    {j \in 0..UIntMax : job.group_job_offset <= j /\ j < job.group_job_end}

\* Thread t adds a call's Jobs to counter c in this step.
Announces(t, c) ==
    /\ At(t, "execute", "inc") \/ At(t, "dispatch", "begin")
    /\ Top(t).ctx = c
    /\ Len(calls') = Len(calls) + 1
    /\ calls'[Len(calls')].by = t
    /\ counter'[c] = (counter[c] + calls'[Len(calls')].groupCount) % UIntMod

\* Thread t takes the Job it holds off counter c in this step: one unit, with
\* every iteration of the Job run once and returned, the Job held by no other
\* frame, and not taken off before.
Retires(t, c) ==
    /\ At(t, "work", "dec")
    /\ stack'[t] # stack[t]
    /\ Top(t).job.context = c
    /\ counter'[c] = (counter[c] - 1) % UIntMod
    /\ \A j \in JobRange(Top(t).job) : BagCount(ran, <<Top(t).job.call, j>>) = 1
    /\ Executors(Top(t).job) = {<<t, Len(stack[t])>>}
    /\ BagCount(done, Top(t).job) = 0

\* C24: a counter is decremented once per Job, by one, by the thread that ran
\* the Job, and only after the last iteration of the Job's range has
\* returned: a counter changes only when a call announces its Jobs or when a
\* thread retires the Job it holds, so never per iteration and never before
\* or while an iteration of that Job runs.
C24_DecrementPerJob ==
    /\ [](\A job \in DOMAIN done : done[job] = 1)
    /\ [][\A c \in Contexts :
             counter'[c] # counter[c] =>
                 \E t \in Threads : Announces(t, c) \/ Retires(t, c)]_vars

\* A Job of two iterations has been retired: both ran, the counter is at zero.
C24_Witness ==
    \E job \in DOMAIN done :
        /\ Cardinality(JobRange(job)) = 2
        /\ \A j \in JobRange(job) : BagCount(ran, <<job.call, j>>) = 1
        /\ counter[job.context] = 0

\* ------------------------------------------------------------ helping
\* HelpSpec: the main thread initializes the pool, submits plain tasks and
\* calls wait_for; the workers run as they like until wait_for is called and
\* take no step while the main thread is inside it.  Only the main thread is
\* scheduled fairly.
HelpNext ==
    \/ ~InWaitFor(Main) /\ PoolStep
    \/ WorkStep(Main)
    \/ ExecuteStep(Main)
    \/ WaitForStep(Main)
    \/ CallExecute(Main, {"A"}, {PlainTask})
    \/ CallWaitFor(Main, {"A"})
    \/ CallInitialize(MaxThreadCounts, HardwareCounts)

HelpSpec == Init /\ [][HelpNext]_vars /\ WF_vars(ThreadStep(Main))

\* Every outstanding Job of counter c sits in a queue.
AllQueued(c) == counter[c] > 0 /\ counter[c] = Queued(c)

\* C25: a wait_for called on a busy counter makes the caller run one work()
\* pass over all the queues; if every outstanding Job of the counter sits in
\* a queue at the call, the tasks submit nothing and no worker takes a step,
\* the caller has run all of them when its pass is over, and wait_for returns.
C25_WaitForHelps ==
    /\ [](At(Main, "wait_for", "spin") /\ Executing("A") = 0 => counter["A"] = 0)
    /\ (At(Main, "wait_for", "busy") /\ AllQueued("A")) ~> ~InWaitFor(Main)

\* The caller is in its pass, running a Job, with another Job still queued.
C25_Witness ==
    /\ InWaitFor(Main)
    /\ At(Main, "work", "iter")
    /\ Queued("A") = 1
    /\ counter["A"] = 2
    /\ n_threads = 2

\* ------------------------------------------------------------ passes
\* The work() frames, and the frame that called each of them.
Passes == {x \in Frames : FrameAt(x).fn = "work"}
Caller(x) == stack[x[1]][x[2] - 1]
\* The queue a work() frame is at.
Visiting(f) == job_queue_per_thread[QueueIndex(f.startingQueue) + 1]

\* Thread t, at the pop_front of its pass, takes this step.
PassStep(t) == At(t, "work", "pop") /\ stack'[t] # stack[t]
\* The step takes a Job from the queue the pass is at and stays there.
TakesJob(t) ==
    /\ Visiting(Top(t)) # <<>>
    /\ job_queue_per_thread' =
           [job_queue_per_thread EXCEPT ![QueueIndex(Top(t).startingQueue) + 1] = Tail(@)]
    /\ Len(stack'[t]) = Len(stack[t])
    /\ stack'[t][Len(stack[t])].i = Top(t).i
    /\ stack'[t][Len(stack[t])].startingQueue = Top(t).startingQueue
    /\ stack'[t][Len(stack[t])].job = Head(Visiting(Top(t)))
\* The step finds the queue empty and goes to the next one, or ends the pass
\* after the last one.
LeavesQueue(t) ==
    /\ Visiting(Top(t)) = <<>>
    /\ job_queue_per_thread' = job_queue_per_thread
    /\ IF Top(t).i = n_threads - 1
       THEN stack'[t] = SubSeq(stack[t], 1, Len(stack[t]) - 1)
       ELSE /\ Len(stack'[t]) = Len(stack[t])
            /\ stack'[t][Len(stack[t])].i = Top(t).i + 1
            /\ stack'[t][Len(stack[t])].startingQueue = Top(t).startingQueue + 1

\* C26: a work(s) pass visits the queues s, s+1, ..., s+n-1 (mod n) in that
\* order, each once, and leaves a queue only after pop_front found it empty;
\* a worker starts its pass at its own queue, and is at the wait on the wake
\* condition only with its pass over.
C26_PassOrder ==
    /\ [](\A x \in Passes :
            /\ FrameAt(x).i < n_threads
            /\ Caller(x).fn = "worker" =>
                   FrameAt(x).startingQueue = Caller(x).threadID + FrameAt(x).i
            /\ Caller(x).fn = "wait_for" =>
                   FrameAt(x).startingQueue - FrameAt(x).i \in 0..(n_threads - 1))
    /\ [](\A t \in WorkerThreads :
            (stack[t] # <<>> /\ stack[t][1].pc \in {"wait", "parked", "woken", "unlock"})
                => Len(stack[t]) = 1)
    /\ [][\A t \in Threads : PassStep(t) => (TakesJob(t) \/ LeavesQueue(t))]_vars

\* The worker of queue 1 has found its own queue empty and is at queue 0,
\* which holds a Job.
C26_Witness ==
    \E x \in Passes :
        /\ Caller(x).fn = "worker"
        /\ Caller(x).threadID = 1
        /\ FrameAt(x).pc = "pop"
        /\ FrameAt(x).i = 1
        /\ QueueIndex(FrameAt(x).startingQueue) = 0
        /\ Visiting(FrameAt(x)) # <<>>

\* ------------------------------------------------------------ wake-ups
\* SubmitSpec: the main thread initializes the pool and submits plain tasks
\* with execute; nobody calls wait_for or shutdown.  Every thread is scheduled
\* fairly.
SubmitNext ==
    \/ PoolStep
    \/ ExecuteStep(Main)
    \/ CallExecute(Main, {"A"}, {PlainTask})
    \/ CallInitialize(MaxThreadCounts, HardwareCounts)

SubmitSpec == Init /\ [][SubmitNext]_vars /\ Fairness

\* C27: no wake-up is lost: a Job that sits in a queue of an initialized
\* scheduler is eventually taken and executed by the pool, without any
\* wait_for and without further submissions, however the producer's push and
\* notify interleave with a worker's end of pass and wait.
C27_NoLostWakeUp ==
    \A c \in Contexts : (Queued(c) > 0) ~> (Queued(c) = 0)

\* ------------------------------------------------------------ wake_mutex
\* Thread t is inside a work() pass or a task body.
Working(t) == \E i \in 1..Len(stack[t]) : stack[t][i].fn \in {"work", "task"}

\* C28: the mutex of the wake condition is never held by a thread that is in
\* a work() pass or a task body: only a worker holds it, around its wait on
\* the condition, and it has released it when its next pass begins; producers,
\* waiters and shutdown never hold it.
C28_WakeMutexTransient ==
    /\ wake_mutex \in WorkerThreads \cup {NoThread}
    /\ \A t \in Threads :
           wake_mutex = t =>
               /\ ~Working(t)
               /\ At(t, "worker", "wait") \/ At(t, "worker", "unlock")

\* A worker holds the mutex on its way into the wait while another thread
\* runs a task.
C28_Witness ==
    \E t \in WorkerThreads, u \in Threads :
        /\ wake_mutex = t
        /\ At(t, "worker", "wait")
        /\ u # t
        /\ At(u, "task", "ret")

\* ------------------------------------------------------------ queue locks
\* Thread t is at a push_back or a pop_front, and the queue it is on.
AtQueue(t) ==
    At(t, "work", "pop") \/ At(t, "execute", "push") \/ At(t, "dispatch", "push")
QueueOf(t) ==
    IF Top(t).fn = "work" THEN QueueIndex(Top(t).startingQueue) ELSE Top(t).q

\* std::scoped_lock lock(locker): thread t acquires the lock of the queue.
QueueLock(t) ==
    /\ AtQueue(t)
    /\ \A u \in Threads : <<QueueOf(t), u>> \notin locker
    /\ locker' = locker \cup {<<QueueOf(t), t>>}
    /\ UNCHANGED <<logging, staging, lck, internal, counter,
                   shared_allocation_data, stack, history, budget>>

\* The rest of push_back / pop_front, by the thread that holds the lock.
QueueLocked(t) ==
    /\ AtQueue(t)
    /\ <<QueueOf(t), t>> \in locker
    /\ WorkPop(t) \/ ExecutePush(t) \/ DispatchPush(t)

\* LockSpec: the scheduler with the queue locks taken and released in steps
\* of their own; the tasks call execute and wait_for from their body.
LockSizes == {<<2, 1>>}
LockNext ==
    \/ \E t \in Threads : WorkerStep(t)
    \/ \E t \in Threads : InitializeStep(t)
    \/ \E t \in Threads : WorkInvoke(t) \/ WorkDone(t) \/ TaskReturn(t)
    \/ \E t \in Threads : ExecuteInc(t) \/ ExecuteCursor(t) \/ ExecuteNotify(t)
    \/ \E t \in Threads : DispatchBegin(t) \/ DispatchLoop(t) \/ DispatchNotify(t)
    \/ \E t \in Threads : WaitForStep(t)
    \/ \E t \in Threads : QueueLock(t) \/ QueueLocked(t)
    \/ CallExecute(Main, {"A"}, {SpawnTask("A"), WaitTask("B")})
    \/ calls = <<>> /\ CallDispatch(Main, {"B"}, LockSizes)
    \/ CallInitialize(MaxThreadCounts, HardwareCounts)

LockSpec == Init /\ [][LockNext]_vars

\* The queue locks thread t holds.
LocksOf(t) == {q \in 0..(Cardinality(WorkerThreads) - 1) : <<q, t>> \in locker}
\* C29: no queue lock is held while a task body runs: a thread holds a queue
\* lock only inside the push_back or pop_front it is executing, one lock at a
\* time, and has released it when pop_front has returned the Job; so a task
\* that calls execute or wait_for from its body finds no lock held by its
\* own thread, also on the queue its Job came from, and a holder can always
\* finish its queue operation.
C29_NoLockAcrossTask ==
    /\ \A x \in locker :
           /\ AtQueue(x[2]) /\ QueueOf(x[2]) = x[1]
           /\ LocksOf(x[2]) = {x[1]}
           /\ \A u \in Threads \ {x[2]} : <<x[1], u>> \notin locker
           /\ ENABLED QueueLocked(x[2])
    /\ \A t \in Threads :
           (At(t, "work", "iter") \/ At(t, "work", "dec") \/ At(t, "task", "ret"))
               => LocksOf(t) = {}

\* A task body calls execute and holds, for its push_back, the lock of the
\* queue its own Job was popped from.
C29_Witness ==
    \E t \in Threads :
        /\ Len(stack[t]) >= 3
        /\ At(t, "execute", "push")
        /\ stack[t][Len(stack[t]) - 1].fn = "task"
        /\ stack[t][Len(stack[t]) - 2].fn = "work"
        /\ QueueIndex(stack[t][Len(stack[t]) - 2].startingQueue) = Top(t).q
        /\ LocksOf(t) = {Top(t).q}

\* ------------------------------------------------------------ shared scratch
\* ScratchSpec: the main thread initializes the pool and dispatches, with a
\* shared scratch size of 0, 1 or 2, groups of two iterations whose task
\* calls wait_for on a second counter, and plain groups on that counter.
MaxScratch == 2
ScratchCalls == 3
ScratchNext ==
    \/ PoolStep
    \/ \E t \in Threads : TaskReturn(t)
    \/ \E t \in Threads : DispatchStep(t)
    \/ \E t \in Threads : WaitForStep(t)
    \/ \E scratch \in 0..MaxScratch :
           \/ CallDispatchShared(Main, "A", <<2, 2>>, WaitTask("B"), scratch)
           \/ CallDispatchShared(Main, "B", <<1, 1>>, PlainTask, scratch)
    \/ CallInitialize(MaxThreadCounts, HardwareCounts)

ScratchSpec == InitWith(ScratchCalls) /\ [][ScratchNext]_vars

\* The work() frames whose group is executing: popped, with iterations left
\* to run or running.
GroupsExecuting == {x \in Passes : FrameAt(x).pc = "iter"}

\* C30: a group dispatched with a shared scratch size S > 0 gets, for all its
\* iterations, one non-null pointer to the executing thread's buffer, which
\* has capacity >= S and is not reallocated while the group is executing,
\* also when its task calls wait_for and the thread runs other Jobs that ask
\* for more scratch; with S = 0 the pointer is null.
C30_SharedScratch ==
    \A x \in GroupsExecuting :
        LET f == FrameAt(x)
            buffer == shared_allocation_data[x[1]]
        IN  IF f.job.sharedmemory_size > 0
            THEN /\ Args(f).sharedmemory # 0
                 /\ Args(f).sharedmemory = buffer.data
                 /\ buffer.capacity >= f.job.sharedmemory_size
            ELSE Args(f).sharedmemory = 0


\* ------------------------------------------------------------ shutdown without workers
\* shutdown() was entered while no worker exists.
WorkerlessShutdown ==
    InShutdown /\ n_threads = 0 /\ threads = <<>> /\ \A w \in WorkerThreads : stack[w] = <<>>

\* C31: shutdown() invoked while no worker exists (before any initialize, or
\* again after a shutdown) terminates, joins nothing (and no shutdown joins a
\* thread twice), and returns with get_thread_count() == 0 and no worker alive.
C31_ShutdownWithoutWorkers ==
    /\ WorkerlessShutdown ~>
          (~InShutdown /\ n_threads = 0 /\ \A w \in WorkerThreads : stack[w] = <<>>)
    /\ [][WorkerlessShutdown =>
             /\ threads' = <<>> /\ n_threads' = 0
             /\ \A w \in WorkerThreads : stack'[w] = <<>>]_vars
    /\ [][\A k \in DOMAIN threads :
             (k \in DOMAIN threads' /\ threads'[k].joined # threads[k].joined) =>
                 /\ ~threads[k].joined
                 /\ At(Main, "shutdown", "join") /\ Top(Main).k = k]_vars
    /\ [][(WorkerlessShutdown /\ stack'[Main] = <<>>) =>
             /\ n_threads' = 0 /\ threads' = <<>> /\ stack[Waker] = <<>>]_vars
\* A second shutdown, after initialize and a first shutdown, waits for its waker.
C31_Witness ==
    /\ shutdowns >= 2 /\ is_initialized
    /\ At(Main, "shutdown", "join_waker")
    /\ WorkerlessShutdown

\* ------------------------------------------------------------ ready
\* bool ready() { return _is_initialized_; }
ready == is_initialized
\* uint32_t get_thread_count() { return internal_state.n_threads; }
get_thread_count == n_threads

\* C32: outside initialize and shutdown calls, ready() is true iff the worker
\* pool exists (get_thread_count() > 0): false before the first initialize,
\* true after initialize, false again once shutdown() has returned.
C32_ReadyReflectsPool ==
    ~LifecycleCall => (ready <=> get_thread_count > 0)

\* ------------------------------------------------------------ dispatch arithmetic
\* C33: for every dispatch with job_count > 0 and group_size > 0 the 32-bit
\* arithmetic is exact: job_count + group_size - 1 does not wrap and
\* dispatch_group_count is ceil(job_count / group_size); groupID * groupSize and
\* group_job_offset + groupSize do not wrap, and every Job built has
\* range_start < range_end <= job_count.
C33_DispatchArithmeticExact ==
    \A k \in DOMAIN calls :
        (calls[k].fn = "dispatch" /\ calls[k].jobCount > 0 /\ calls[k].groupSize > 0) =>
            LET jobCount == calls[k].jobCount
                groupSize == calls[k].groupSize
            IN /\ jobCount + groupSize - 1 <= UIntMax
               /\ dispatch_group_count(jobCount, groupSize) = Ceil(jobCount, groupSize)
               /\ calls[k].groupCount = Ceil(jobCount, groupSize)
               /\ \A job \in JobsOf(k) :
                     /\ job.group_ID * groupSize <= UIntMax
                     /\ job.group_job_offset + groupSize <= UIntMax
                     /\ job.group_job_offset < job.group_job_end
                     /\ job.group_job_end <= jobCount

\* ------------------------------------------------------------ async_destroy
\* C34: async_destroy() on a handle holding a scene clears the ready flag and
\* then calls the scene's destroy() exactly once and never init(); on a handle
\* with no scene, async_init() and async_destroy() return false, call nothing
\* and leave the ready flag false.
C34_AsyncDestroyDestroys ==
    /\ [][\A h \in HandleNames :
            (At(Main, "async_destroy", "return") /\ Top(Main).h = h /\ Top(Main).ret
                /\ stack'[Main] = <<>>)
                => /\ ~handles'[h].m_ready
                   /\ scenes'[h].destroys = Top(Main).gone + 1
                   /\ scenes'[h].inits = Top(Main).seen]_vars
    /\ [][\A h \in HandleNames :
            scenes'[h].destroys # scenes[h].destroys
                => /\ At(Main, "async_destroy", "init") /\ Top(Main).h = h
                   /\ ~handles[h].m_ready]_vars
    /\ [][\A h \in HandleNames :
            (InSceneCall(Main, h) /\ handles[h].m_scene = NoScene)
                => /\ ~Top(Main).ret
                   /\ scenes' = scenes /\ handles' = handles
                   /\ ~handles[h].m_ready]_vars

====
